---------------------------- MODULE Spec2Model ----------------------------
(***************************************************************************)
(* Model of the voice-clone generation orchestrator (the clone-voice edge  *)
(* function, supabase/functions/clone-voice/index.ts, second revision,     *)
(* lines 327-754) and of the cleanup-voices edge function (the sweeper).   *)
(*                                                                         *)
(* Conventions                                                             *)
(*  - a nullable value is a sequence: None == <<>> is null, Some(v) ==     *)
(*    <<v>> is the value v;                                                *)
(*  - real numbers in [0,1] are kept in hundredths (0.5 is 50, 0.75 is 75, *)
(*    1.5 is 150);                                                         *)
(*  - a text whose content is tested character by character (the script) *)
(*    is the sequence of its UTF-16 code units;                            *)
(*  - time is counted in minutes.                                          *)
(***************************************************************************)
EXTENDS Integers, Sequences, FiniteSets, TLC

VARIABLES
    now,        \* wall clock (Date.now / the database's now()), in minutes
    db,         \* table voice_projects: project id -> row
    voices,     \* the provider's voices: set of [voice_id, name]
    nextVoice,  \* the next voice id the provider hands out
    run,        \* clone-voice invocations: run id -> locals of the handler
    stamped,    \* history: project id -> time a run last moved it to analyzing
    rb,         \* a stand-alone retryWithBackoff call (harness for the helper)
    sw,         \* the cleanup-voices job: locals of its handler, and history
    he,         \* a stand-alone handleElevenLabsError call
    samples,    \* table voice_samples: project id -> number of its rows
    ui          \* the web client: the generate dialog and the recording
                \* studio, the locals of their handlers

vars == <<now, db, voices, nextVoice, run, stamped, rb, sw, he, samples, ui>>

---------------------------------------------------------------------------
(* Bounds of the model                                                     *)

NumRuns == 2
MaxSamples == 2
MaxVoices == 2
MaxTime == 6
MaxRetriesArg == 4
MaxSweeps == 2
MaxClips == 1
MaxCreated == 1

---------------------------------------------------------------------------
(* Nullable values, truthiness                                             *)

None == <<>>
Some(v) == <<v>>
IsNull(x) == x = None
Val(x) == x[1]

Min(a, b) == IF a < b THEN a ELSE b

Pow2(n) == IF n <= 0 THEN 1 ELSE 2 ^ n

---------------------------------------------------------------------------
(* Strings                                                                 *)

\* String.prototype.includes
Includes(s, needle) ==
    \E i \in 1..(Len(s) - Len(needle) + 1) :
        SubSeq(s, i, i + Len(needle) - 1) = needle

\* String.prototype.startsWith
StartsWith(s, prefix) ==
    Len(s) >= Len(prefix) /\ SubSeq(s, 1, Len(prefix)) = prefix

\* A text the user writes (the script) is the sequence of its UTF-16 code
\* units, which is what String.prototype.trim and .length work on; every
\* other string of the program (ids, statuses, messages) is a string here.

\* the code units String.prototype.trim removes (ECMA-262 WhiteSpace and
\* LineTerminator): U+0009 to U+000D, U+0020, U+00A0, U+1680, U+2000 to
\* U+200A, U+2028, U+2029, U+202F, U+205F, U+3000, U+FEFF
IsWhiteSpace(c) ==
    \/ c \in {9, 10, 11, 12, 13, 32, 160, 5760}
    \/ c \in 8192..8202
    \/ c \in {8232, 8233, 8239, 8287, 12288, 65279}

RECURSIVE TrimStart(_)
TrimStart(s) ==
    IF Len(s) > 0 /\ IsWhiteSpace(s[1])
    THEN TrimStart(SubSeq(s, 2, Len(s)))
    ELSE s

RECURSIVE TrimEnd(_)
TrimEnd(s) ==
    IF Len(s) > 0 /\ IsWhiteSpace(s[Len(s)])
    THEN TrimEnd(SubSeq(s, 1, Len(s) - 1))
    ELSE s

\* String.prototype.trim
Trim(s) == TrimEnd(TrimStart(s))

---------------------------------------------------------------------------
(* Tables and inputs                                                       *)

ProjectIds == {"p1", "p2"}

\* body.projectId of a request: an existing project, an id that matches no
\* row, or a missing / empty id
RequestIds == {Some("p1"), Some("p2"), Some("ghost"), Some(""), None}

Statuses ==
    {"draft", "recording", "analyzing", "training", "ready", "generating",
     "completed", "failed"}

\* the voice-parameter columns of a row as the handler reads them
\* (hundredths; None is SQL NULL): values the CHECK constraints of the
\* columns and the trigger validate_voice_parameters let in
ParamProfiles ==
    { [voice_stability |-> Some(50), voice_similarity_boost |-> Some(75),
       voice_style |-> Some(0), voice_speaker_boost |-> Some(TRUE)],
      [voice_stability |-> Some(0), voice_similarity_boost |-> Some(0),
       voice_style |-> Some(0), voice_speaker_boost |-> Some(FALSE)],
      [voice_stability |-> None, voice_similarity_boost |-> None,
       voice_style |-> None, voice_speaker_boost |-> None],
      [voice_stability |-> Some(100), voice_similarity_boost |-> Some(30),
       voice_style |-> Some(100), voice_speaker_boost |-> None] }

\* the text " Hi "
ScriptHi == <<32, 72, 105, 32>>

\* a text of white space only: space, vertical tab, CR, LF, no-break
\* space, em space, line separator, ideographic space, U+FEFF
ScriptBlank == <<32, 11, 13, 10, 160, 8195, 8232, 12288, 65279>>

\* the script_text column: NULL, '', white space only, a text
Scripts == {None, Some(<<>>), Some(ScriptBlank), Some(ScriptHi)}

InRange(x) == IsNull(x) \/ (Val(x) >= 0 /\ Val(x) <= 100)

\* the range rule of the data model (validate_voice_parameters)
ParamsValid(row) ==
    /\ InRange(row.voice_stability)
    /\ InRange(row.voice_similarity_boost)
    /\ InRange(row.voice_style)

\* the script rule: present and non-empty after trimming
ScriptValid(row) ==
    /\ ~IsNull(row.script_text)
    /\ Len(Trim(Val(row.script_text))) > 0

NewRow(script, params) ==
    [ status |-> "draft",
      elevenlabs_voice_id |-> None,
      generated_audio_url |-> None,
      last_generation_at |-> None,
      updated_at |-> 0,
      user_id |-> "u1",
      clips_uploaded |-> 0,
      script_text |-> script,
      voice_stability |-> params.voice_stability,
      voice_similarity_boost |-> params.voice_similarity_boost,
      voice_style |-> params.voice_style,
      voice_speaker_boost |-> params.voice_speaker_boost ]

DefaultParams ==
    [voice_stability |-> Some(50), voice_similarity_boost |-> Some(75),
     voice_style |-> Some(0), voice_speaker_boost |-> Some(TRUE)]

\* supabaseClient.from('voice_projects').update(fields).eq('id', pid):
\* the matching row takes the fields; the BEFORE UPDATE trigger
\* update_updated_at_column sets updated_at; an id that matches no row
\* changes nothing.
DbUpdate(table, pid, fields, t) ==
    IF pid \in DOMAIN table
    THEN [table EXCEPT ![pid] =
            [c \in DOMAIN table[pid] |->
                IF c = "updated_at" THEN t
                ELSE IF c \in DOMAIN fields THEN fields[c]
                ELSE table[pid][c]]]
    ELSE table

VoiceName(pid) == "Voice_" \o pid

---------------------------------------------------------------------------
(* Errors and HTTP statuses                                                *)

\* a thrown JavaScript value: an Error object with its message, or the
\* value undefined (a rejection without a reason)
Err(m) == [kind |-> "Error", message |-> m]
Undefined == [kind |-> "undefined", message |-> ""]
Truthy(v) == v.kind # "undefined"

UpperCase == <<"A","B","C","D","E","F","G","H","I","J","K","L","M",
               "N","O","P","Q","R","S","T","U","V","W","X","Y","Z">>
LowerCase == <<"a","b","c","d","e","f","g","h","i","j","k","l","m",
               "n","o","p","q","r","s","t","u","v","w","x","y","z">>

LowerChar(c) ==
    IF \E k \in 1..26 : UpperCase[k] = c
    THEN LowerCase[CHOOSE k \in 1..26 : UpperCase[k] = c]
    ELSE c

\* String.prototype.toLowerCase
RECURSIVE ToLowerCase(_)
ToLowerCase(s) ==
    IF Len(s) = 0 THEN s
    ELSE LowerChar(SubSeq(s, 1, 1)) \o ToLowerCase(SubSeq(s, 2, Len(s)))

\* the body of a provider response: whether it parses as a JSON object,
\* its detail.message and message members when it has them, and
\* JSON.stringify of the parsed value (the raw text when it is not JSON)
JsonBody(detail, message, text) ==
    [isJson |-> TRUE, detail |-> detail, message |-> message, text |-> text]
TextBody(text) ==
    [isJson |-> FALSE, detail |-> None, message |-> None, text |-> text]
DetailBody(m) == JsonBody(Some(m), None, "{\"detail\":{\"message\":\"" \o m \o "\"}}")
MessageBody(m) == JsonBody(None, Some(m), "{\"message\":\"" \o m \o "\"}")

\* a || b on strings that may be missing: the first one present and
\* non-empty
NonEmpty(x) == ~IsNull(x) /\ Val(x) # ""

\* errorData.detail?.message || errorData.message || JSON.stringify(errorData)
ErrorMessageOf(body) ==
    IF NonEmpty(body.detail) THEN Val(body.detail)
    ELSE IF NonEmpty(body.message) THEN Val(body.message)
    ELSE body.text

\* what response.text() throws in the catch of a failed response.json():
\* the body was read by json() already
BodyConsumed == [kind |-> "TypeError", message |-> "Body already consumed."]

\* handleElevenLabsError: the message of the Error it throws, from the
\* response's status and the message parsed from its body
handleElevenLabsError(statusCode, errorMessage, operation) ==
    CASE statusCode = 401 ->
            "ElevenLabs API key is invalid or expired. Please update your API key."
      [] statusCode = 402 ->
            "ElevenLabs quota exceeded. Please check your subscription or wait until your quota resets."
      [] statusCode = 422 ->
            IF Includes(ToLowerCase(errorMessage), "audio")
            THEN "Invalid audio format or corrupted audio files. Please re-record your voice samples."
            ELSE "Invalid request data. Please check your voice settings and try again."
      [] statusCode = 429 ->
            "Rate limit exceeded. Please wait a moment and try again."
      [] statusCode \in {500, 502, 503} ->
            "ElevenLabs service is temporarily unavailable. Please try again in a few minutes."
      [] OTHER ->
            IF \/ Includes(ToLowerCase(errorMessage), "voice limit")
               \/ Includes(ToLowerCase(errorMessage), "maximum")
            THEN "Voice limit reached on your ElevenLabs account. Please delete unused voices or upgrade your plan."
            ELSE IF Includes(ToLowerCase(errorMessage), "format")
            THEN "Audio format not supported. Please ensure recordings are in MP3 format."
            ELSE "ElevenLabs " \o operation \o " failed: " \o errorMessage

\* handleElevenLabsError(response, operation): the value it throws
ElevenLabsError(response, operation) ==
    IF response.body.isJson
    THEN Err(handleElevenLabsError(response.status,
                                   ErrorMessageOf(response.body), operation))
    ELSE BodyConsumed

\* no call of handleElevenLabsError in progress
NoCall ==
    [ state |-> "none", response |-> [status |-> 0, body |-> TextBody("")],
      operation |-> "", thrown |-> Undefined ]

\* the catch block's choice of the HTTP status of the error response
StatusCode(message) ==
    IF Includes(message, "quota") \/ Includes(message, "limit") THEN 402
    ELSE IF Includes(message, "invalid") \/ Includes(message, "format") THEN 422
    ELSE IF Includes(message, "rate limit") THEN 429
    ELSE IF Includes(message, "API key") THEN 401
    ELSE 500

---------------------------------------------------------------------------
(* retryWithBackoff                                                        *)

GenericRetryError == Err("All retry attempts failed")

\* the for loop's test, and the throw after the loop
RetryLoop(rs) ==
    IF rs.attempt < rs.maxRetries
    THEN rs
    ELSE [rs EXCEPT !.state = "threw",
                    !.thrown = IF ~IsNull(rs.lastError) /\ Truthy(Val(rs.lastError))
                               THEN Val(rs.lastError)
                               ELSE GenericRetryError]

\* the call retryWithBackoff(fn, maxRetries, initialDelay) up to its first
\* await
RetryBegin(maxRetries, initialDelay) ==
    RetryLoop([ maxRetries |-> maxRetries,
                initialDelay |-> initialDelay,
                attempt |-> 0,
                lastError |-> None,
                calls |-> 0,
                delays |-> <<>>,
                state |-> "loop",
                value |-> None,
                thrown |-> Undefined ])

\* retryWithBackoff with the loop going on after a successful invocation
RetryAttemptNoReturn(rs, res) ==
    RetryLoop([rs EXCEPT
        !.lastError = IF res.ok THEN @ ELSE Some(res.error),
        !.value = IF res.ok THEN Some(res.value) ELSE @,
        !.calls = @ + 1,
        !.delays = IF rs.attempt < rs.maxRetries - 1
                   THEN Append(@, rs.initialDelay * Pow2(rs.attempt))
                   ELSE @,
        !.attempt = @ + 1])

\* mutant of RetryAttempt: the wait follows every failed invocation
RetryAttemptWaitLast(rs, res) ==
    IF res.ok
    THEN [rs EXCEPT !.state = "returned",
                    !.value = Some(res.value),
                    !.calls = @ + 1]
    ELSE RetryLoop([rs EXCEPT
            !.lastError = Some(res.error),
            !.calls = @ + 1,
            !.delays = Append(@, rs.initialDelay * Pow2(rs.attempt)),
            !.attempt = @ + 1])

\* one iteration of the loop: fn is awaited and either returns res.value or
\* throws res.error
RetryAttempt(rs, res) ==
    IF res.ok
    THEN [rs EXCEPT !.state = "returned",
                    !.value = Some(res.value),
                    !.calls = @ + 1]
    ELSE RetryLoop([rs EXCEPT
            !.lastError = Some(res.error),
            !.calls = @ + 1,
            !.delays = IF rs.attempt < rs.maxRetries - 1
                       THEN Append(@, rs.initialDelay * Pow2(rs.attempt))
                       ELSE @,
            !.attempt = @ + 1])

NoRetry ==
    [ maxRetries |-> 0, initialDelay |-> 0, attempt |-> 0, lastError |-> None,
      calls |-> 0, delays |-> <<>>, state |-> "none", value |-> None,
      thrown |-> Undefined ]

FnOk(v) == [ok |-> TRUE, value |-> v, error |-> Undefined]
FnThrow(e) == [ok |-> FALSE, value |-> None, error |-> e]

---------------------------------------------------------------------------
(* The provider (ElevenLabs)                                               *)

VoiceIds == {v.voice_id : v \in voices}

\* non-OK responses of the provider used for the calls of a run
ProviderErrors ==
    { [status |-> 401, body |-> DetailBody("Unauthorized")],
      [status |-> 429, body |-> DetailBody("Too many requests")],
      [status |-> 503, body |-> DetailBody("Service unavailable")] }

\* the rejection of a fetch: network error, or abort on the timeout
NetworkError == TextBody("network error")
OkBody == JsonBody(None, None, "{}")

\* POST /voices/add answers OK with a new voice, OK without a voice_id,
\* non-OK, or the fetch rejects (network error, abort after 120 s)
CreateOutcomes ==
    {[kind |-> "ok", status |-> 200, body |-> OkBody],
     [kind |-> "ok_without_id", status |-> 200, body |-> OkBody],
     [kind |-> "throw", status |-> 0, body |-> NetworkError]}
    \cup {[kind |-> "http_error", status |-> e.status, body |-> e.body] :
            e \in ProviderErrors}

\* POST /text-to-speech/{voice_id} answers OK with audio, OK with an empty
\* body, non-OK, or the fetch rejects
SynthOutcomes ==
    {[kind |-> "ok", status |-> 200, body |-> OkBody],
     [kind |-> "ok_empty", status |-> 200, body |-> OkBody],
     [kind |-> "throw", status |-> 0, body |-> NetworkError]}
    \cup {[kind |-> "http_error", status |-> e.status, body |-> e.body] :
            e \in ProviderErrors}

\* DELETE /voices/{voice_id}: OK removes the voice; 404 when the provider
\* has no such voice; another non-OK status; or the fetch rejects
DeleteOutcomes(id) ==
    (IF id \in VoiceIds THEN {"ok"} ELSE {"not_found"})
    \cup {"http_error", "throw"}

DeleteAtProvider(id, outcome) ==
    IF outcome = "ok" THEN {v \in voices : v.voice_id # id} ELSE voices

\* a sample download: OK with data, non-OK, OK with an empty blob, or the
\* fetch rejects (network error, abort after 30 s)
DownloadOutcomes == {"ok", "http_error", "empty", "throw"}

---------------------------------------------------------------------------
(* The clone-voice handler                                                 *)

Runs == 1..NumRuns

MAX_FILES == 25
RETRIES == 3
INITIAL_DELAY == 2000

DEFAULT_STABILITY == 50
DEFAULT_SIMILARITY_BOOST == 75
DEFAULT_STYLE == 0

\* minutes of cool-down between two generations of a project
COOLDOWN_MINUTES == 5

\* a ?? b
Coalesce(a, b) == IF IsNull(a) THEN b ELSE Val(a)

\* mutant of VoiceSettings: || in place of ??, so that 0 and false take
\* the default too
VoiceSettingsOr(project) ==
    [ stability |->
          IF project.voice_stability \in {None, Some(0)}
          THEN DEFAULT_STABILITY ELSE Val(project.voice_stability),
      similarity_boost |->
          IF project.voice_similarity_boost \in {None, Some(0)}
          THEN DEFAULT_SIMILARITY_BOOST ELSE Val(project.voice_similarity_boost),
      style |->
          IF project.voice_style \in {None, Some(0)}
          THEN DEFAULT_STYLE ELSE Val(project.voice_style),
      use_speaker_boost |->
          IF project.voice_speaker_boost \in {None, Some(FALSE)}
          THEN TRUE ELSE Val(project.voice_speaker_boost) ]

\* the voice_settings object of the text-to-speech request
VoiceSettings(project) ==
    [ stability |-> Coalesce(project.voice_stability, DEFAULT_STABILITY),
      similarity_boost |->
          Coalesce(project.voice_similarity_boost, DEFAULT_SIMILARITY_BOOST),
      style |-> Coalesce(project.voice_style, DEFAULT_STYLE),
      use_speaker_boost |-> Coalesce(project.voice_speaker_boost, TRUE) ]

\* !project.script_text || project.script_text.trim().length === 0
ScriptMissing(project) ==
    \/ IsNull(project.script_text)
    \/ Len(Val(project.script_text)) = 0
    \/ Len(Trim(Val(project.script_text))) = 0

PublicUrl(project, pid) == project.user_id \o "/" \o pid \o "_generated.mp3"

NoResponse == [sent |-> FALSE, ok |-> FALSE, status |-> 0, error |-> "",
               audioUrl |-> None]

\* the locals of one invocation, and what the invocation has done so far
IdleRun ==
    [ pc |-> "idle",
      projectId |-> None,           \* let projectId
      elevenLabsVoiceId |-> None,   \* let elevenLabsVoiceId
      project |-> None,             \* const project (the row as read)
      nSamples |-> 0,               \* samples.length
      i |-> 0,                      \* the download loop's index
      files |-> <<>>,               \* the 'files' parts of formData
      retry |-> NoRetry,            \* the retryWithBackoff call in progress
      publicUrl |-> None,
      response |-> NoResponse,
      \* history
      startedAt |-> 0,
      inCooldown |-> FALSE,         \* started within the cool-down
      rowAtStart |-> None,
      created |-> None,             \* voice id its createVoice returned
      calledCreate |-> FALSE,       \* it has called POST /voices/add
      calledSynth |-> FALSE,        \* it has called POST /text-to-speech
      sent |-> None,                \* voice_settings of its synthesize calls
      deleteCalls |-> <<>>,         \* [id, outcome] of its delete calls
      failed |-> <<>>,              \* indices of the samples that failed
      wrote |-> FALSE,              \* it has updated a row
      writes |-> <<>> ]             \* [from, to] of its status updates

\* the invocation has made no call to the provider
NoProviderCall(rec) ==
    ~rec.calledCreate /\ ~rec.calledSynth /\ rec.deleteCalls = <<>>

ErrorResponse(message) ==
    [sent |-> TRUE, ok |-> FALSE, status |-> StatusCode(message),
     error |-> message, audioUrl |-> None]

SuccessResponse(url) ==
    [sent |-> TRUE, ok |-> TRUE, status |-> 200, error |-> "",
     audioUrl |-> Some(url)]

\* mutant of CatchEntry: the catch block never deletes the voice
CatchEntryNoDelete(rec) ==
    IF ~IsNull(rec.projectId) /\ Val(rec.projectId) # ""
    THEN "catchSetFailed"
    ELSE "returned"

\* where the catch block goes first: the delete call when a voice id is
\* held, else the status update when there is a project id, else straight
\* to the error response
CatchEntry(rec) ==
    IF ~IsNull(rec.projectId) /\ Val(rec.projectId) # ""
    THEN IF ~IsNull(rec.elevenLabsVoiceId) THEN "catchDelete" ELSE "catchSetFailed"
    ELSE "returned"

\* throw new Error(message) inside the try block: control enters the catch
\* block, which keeps the message for the response
Throw(rec, message) ==
    [rec EXCEPT !.pc = CatchEntry(rec),
                !.response = IF CatchEntry(rec) = "returned"
                             THEN ErrorResponse(message)
                             ELSE [NoResponse EXCEPT !.error = message]]

Pid(rec) == Val(rec.projectId)

\* await supabaseClient.from('voice_projects').update(fields).eq('id',
\* projectId), whose result the handler never looks at: the table afterwards,
\* the update taking effect (dbOk) or being answered with an error
RunUpdate(rec, fields, dbOk) ==
    IF dbOk THEN DbUpdate(db, Pid(rec), fields, now) ELSE db

\* history of the status updates that took effect
Wrote(rec, fields, dbOk) ==
    IF dbOk /\ Pid(rec) \in ProjectIds
    THEN [rec EXCEPT !.wrote = TRUE,
                     !.writes = Append(@, [from |-> db[Pid(rec)].status,
                                           to |-> fields.status])]
    ELSE rec

\* the request is parsed and the project id checked (the caller's side of
\* the POST is left to the action that sends it)
Invoke(r, req) ==
    /\ run[r].pc = "idle"
    /\ LET rec == [IdleRun EXCEPT
                    !.projectId = req,
                    !.startedAt = now,
                    !.inCooldown =
                        /\ ~IsNull(req)
                        /\ Val(req) \in ProjectIds
                        /\ ~IsNull(stamped[Val(req)])
                        /\ now - Val(stamped[Val(req)]) < COOLDOWN_MINUTES,
                    !.rowAtStart =
                        IF ~IsNull(req) /\ Val(req) \in ProjectIds
                        THEN Some(db[Val(req)]) ELSE None]
       IN  run' = [run EXCEPT ![r] =
                IF IsNull(req) \/ Val(req) = ""
                THEN Throw(rec, "Project ID is required")
                ELSE [rec EXCEPT !.pc = "fetchProject"]]
    /\ UNCHANGED <<now, db, voices, nextVoice, stamped, rb, sw, he, samples>>

\* select('*').eq('id', projectId).single(): the row, or an error / no row
FetchProject(r, dbOk) ==
    /\ run[r].pc = "fetchProject"
    /\ run' = [run EXCEPT ![r] =
            IF dbOk /\ Pid(run[r]) \in ProjectIds
            THEN [@ EXCEPT !.project = Some(db[Pid(run[r])]),
                           !.pc = "fetchSamples"]
            ELSE Throw(@, "Project not found")]
    /\ UNCHANGED <<now, db, voices, nextVoice, stamped, rb, sw, he,
                   samples, ui>>

\* the samples of the project ordered by clip_number: the rows the table
\* holds at that moment, or an error
FetchSamples(r, dbOk) ==
    /\ run[r].pc = "fetchSamples"
    /\ run' = [run EXCEPT ![r] =
            IF dbOk /\ samples[Pid(run[r])] > 0
            THEN [@ EXCEPT !.nSamples = samples[Pid(run[r])],
                           !.pc = "setAnalyzing"]
            ELSE Throw(@, "No voice samples found for this project")]
    /\ UNCHANGED <<now, db, voices, nextVoice, stamped, rb, sw, he,
                   samples, ui>>

\* update({ status: 'analyzing' })
SetAnalyzing(r, dbOk) ==
    /\ run[r].pc = "setAnalyzing"
    /\ db' = RunUpdate(run[r], [status |-> "analyzing"], dbOk)
    /\ stamped' = [stamped EXCEPT ![Pid(run[r])] = Some(now)]
    /\ run' = [run EXCEPT ![r] =
            [Wrote(@, [status |-> "analyzing"], dbOk) EXCEPT
                !.pc = "download", !.i = 0]]
    /\ UNCHANGED <<now, voices, nextVoice, rb, sw, he, samples, ui>>

\* mutant of MoreSamples: samples are fetched until 25 files are there
MoreSamplesRefill(rec) ==
    rec.i < rec.nSamples /\ Len(rec.files) < MAX_FILES

\* the download loop's test: i < Math.min(samples.length, 25)
MoreSamples(rec) == rec.i < Min(rec.nSamples, MAX_FILES)

\* the end of the download loop: without a file the run throws, with one
\* it calls retryWithBackoff(createVoice, 3, 2000)
AfterDownloads(rec) ==
    IF MoreSamples(rec)
    THEN rec
    ELSE IF Len(rec.files) = 0
    THEN Throw(rec, "No valid voice samples could be loaded. Please check your recordings and try again.")
    ELSE [rec EXCEPT !.pc = "createVoice",
                     !.retry = RetryBegin(RETRIES, INITIAL_DELAY)]

\* mutant of DownloadStep: a failed download is not skipped
DownloadStepNoSkip(rec, outcome) ==
    AfterDownloads(
        IF outcome = "ok"
        THEN [rec EXCEPT !.files = Append(@, rec.i), !.i = @ + 1]
        ELSE [rec EXCEPT !.files = Append(@, rec.i),
                         !.failed = Append(@, rec.i), !.i = @ + 1])

\* one iteration of the download loop, for sample number i
DownloadStep(rec, outcome) ==
    AfterDownloads(
        IF outcome = "ok"
        THEN [rec EXCEPT !.files = Append(@, rec.i), !.i = @ + 1]
        ELSE [rec EXCEPT !.failed = Append(@, rec.i), !.i = @ + 1])

Download(r, outcome) ==
    /\ run[r].pc = "download"
    /\ MoreSamples(run[r])
    /\ run' = [run EXCEPT ![r] = DownloadStep(@, outcome)]
    /\ UNCHANGED <<now, db, voices, nextVoice, stamped, rb, sw, he,
                   samples, ui>>

\* what fn of the createVoice retry returns or throws for a response
CreateResult(outcome, id) ==
    CASE outcome.kind = "ok" -> FnOk(Some(id))
      [] outcome.kind = "ok_without_id" -> FnOk(None)
      [] outcome.kind = "http_error" ->
            FnThrow(ElevenLabsError(outcome, "voice creation"))
      [] OTHER -> FnThrow(Err(outcome.body.text))

\* mutant of AfterCreate: when retryWithBackoff throws, it is called again
AfterCreateAgain(rec) ==
    CASE rec.retry.state = "loop" -> rec
      [] rec.retry.state = "threw" ->
            [rec EXCEPT !.retry = RetryBegin(RETRIES, INITIAL_DELAY)]
      [] OTHER ->
            LET withId == [rec EXCEPT !.elevenLabsVoiceId = Val(rec.retry.value),
                                      !.created = Val(rec.retry.value)]
            IN  IF IsNull(withId.elevenLabsVoiceId)
                THEN Throw(withId, "No voice ID returned from ElevenLabs. Please try again.")
                ELSE [withId EXCEPT !.pc = "storeVoiceId"]

\* after retryWithBackoff settled: the voice id is kept, or the run throws
AfterCreate(rec) ==
    CASE rec.retry.state = "loop" -> rec
      [] rec.retry.state = "threw" -> Throw(rec, rec.retry.thrown.message)
      [] OTHER ->
            LET withId == [rec EXCEPT !.elevenLabsVoiceId = Val(rec.retry.value),
                                      !.created = Val(rec.retry.value)]
            IN  IF IsNull(withId.elevenLabsVoiceId)
                THEN Throw(withId, "No voice ID returned from ElevenLabs. Please try again.")
                ELSE [withId EXCEPT !.pc = "storeVoiceId"]

\* one attempt of POST /voices/add
CreateVoice(r, outcome) ==
    /\ run[r].pc = "createVoice"
    /\ outcome.kind = "ok" => nextVoice <= MaxVoices
    /\ voices' = IF outcome.kind = "ok"
                 THEN voices \cup {[voice_id |-> nextVoice,
                                    name |-> VoiceName(Pid(run[r]))]}
                 ELSE voices
    /\ nextVoice' = IF outcome.kind = "ok" THEN nextVoice + 1 ELSE nextVoice
    /\ run' = [run EXCEPT ![r] =
            AfterCreate([@ EXCEPT
                !.retry = RetryAttempt(@, CreateResult(outcome, nextVoice)),
                !.calledCreate = TRUE])]
    /\ UNCHANGED <<now, db, stamped, rb, sw, he, samples, ui>>

\* after the voice id is stored: the script is checked, then
\* retryWithBackoff(synthesize, 3, 2000) is called
AfterStore(rec) ==
    IF ScriptMissing(Val(rec.project))
    THEN Throw(rec, "No script text provided. Please add text to generate speech.")
    ELSE [rec EXCEPT !.pc = "synthesize",
                     !.retry = RetryBegin(RETRIES, INITIAL_DELAY)]

\* the fields of the update that records the voice id
StoreFields(rec) ==
    [elevenlabs_voice_id |-> rec.elevenLabsVoiceId, status |-> "generating"]

\* update({ elevenlabs_voice_id, status: 'generating' })
StoreVoiceId(r, dbOk) ==
    /\ run[r].pc = "storeVoiceId"
    /\ db' = RunUpdate(run[r], StoreFields(run[r]), dbOk)
    /\ run' = [run EXCEPT ![r] =
            AfterStore(Wrote(@, StoreFields(run[r]), dbOk))]
    /\ UNCHANGED <<now, voices, nextVoice, stamped, rb, sw, he, samples, ui>>

\* what fn of the synthesize retry returns (the blob's size) or throws
SynthResult(outcome) ==
    CASE outcome.kind = "ok" -> FnOk(1)
      [] outcome.kind = "ok_empty" -> FnOk(0)
      [] outcome.kind = "http_error" ->
            FnThrow(ElevenLabsError(outcome, "speech generation"))
      [] OTHER -> FnThrow(Err(outcome.body.text))

\* after retryWithBackoff settled: an empty blob is an error
AfterSynth(rec) ==
    CASE rec.retry.state = "loop" -> rec
      [] rec.retry.state = "threw" -> Throw(rec, rec.retry.thrown.message)
      [] OTHER ->
            IF Val(rec.retry.value) = 0
            THEN Throw(rec, "Generated audio is empty. Please try again or adjust voice settings.")
            ELSE [rec EXCEPT !.pc = "upload"]

\* one attempt of POST /text-to-speech/{elevenLabsVoiceId}; the provider
\* answers OK only for a voice it has
Synthesize(r, outcome) ==
    /\ run[r].pc = "synthesize"
    /\ outcome.kind \in {"ok", "ok_empty"} =>
            Val(run[r].elevenLabsVoiceId) \in VoiceIds
    /\ run' = [run EXCEPT ![r] =
            AfterSynth([@ EXCEPT
                !.retry = RetryAttempt(@, SynthResult(outcome)),
                !.calledSynth = TRUE,
                !.sent = Some(VoiceSettings(Val(run[r].project)))])]
    /\ UNCHANGED <<now, db, voices, nextVoice, stamped, rb, sw, he,
                   samples, ui>>

\* storage.upload(fileName, audio, { upsert: true }) and getPublicUrl
Upload(r, ok) ==
    /\ run[r].pc = "upload"
    /\ run' = [run EXCEPT ![r] =
            IF ok
            THEN [@ EXCEPT !.publicUrl =
                                Some(PublicUrl(Val(run[r].project), Pid(run[r]))),
                           !.pc = "finalize"]
            ELSE Throw(@, "Failed to upload audio to storage: upload failed")]
    /\ UNCHANGED <<now, db, voices, nextVoice, stamped, rb, sw, he,
                   samples, ui>>

\* the fields of the final update of the try block
FinalFields(rec) ==
    [ generated_audio_url |-> rec.publicUrl,
      status |-> "completed",
      elevenlabs_voice_id |-> None ]

\* update({ generated_audio_url, status: 'completed', elevenlabs_voice_id: null })
Finalize(r, dbOk) ==
    /\ run[r].pc = "finalize"
    /\ db' = RunUpdate(run[r], FinalFields(run[r]), dbOk)
    /\ run' = [run EXCEPT ![r] =
            [Wrote(@, FinalFields(run[r]), dbOk) EXCEPT !.pc = "release"]]
    /\ UNCHANGED <<now, voices, nextVoice, stamped, rb, sw, he, samples, ui>>

\* mutant of DeleteTarget: the voice id of the project row, when the row
\* the run read holds one
DeleteTargetFromRow(rec) ==
    IF ~IsNull(rec.project) /\ ~IsNull(Val(rec.project).elevenlabs_voice_id)
    THEN Val(Val(rec.project).elevenlabs_voice_id)
    ELSE Val(rec.elevenLabsVoiceId)

\* the voice a DELETE call of the run names: the local elevenLabsVoiceId,
\* which only createVoice's result is assigned to
DeleteTarget(rec) == Val(rec.elevenLabsVoiceId)

\* what follows the try block's DELETE: its result is logged, and the
\* success response is returned
ReleaseResult(rec, outcome) ==
    [rec EXCEPT !.response = SuccessResponse(Val(rec.publicUrl)),
                !.pc = "returned"]

\* the clean-up DELETE of the try block, then the success response
ReleaseVoice(r, outcome) ==
    /\ run[r].pc = "release"
    /\ outcome \in DeleteOutcomes(DeleteTarget(run[r]))
    /\ voices' = DeleteAtProvider(DeleteTarget(run[r]), outcome)
    /\ run' = [run EXCEPT ![r] = ReleaseResult(
            [@ EXCEPT
                !.deleteCalls = Append(@, [id |-> DeleteTarget(run[r]),
                                           outcome |-> outcome])],
            outcome)]
    /\ UNCHANGED <<now, db, nextVoice, stamped, rb, sw, he, samples, ui>>

\* the catch block with a voice id: the DELETE call, whatever its result
CatchDeleteVoice(r, outcome) ==
    /\ run[r].pc = "catchDelete"
    /\ outcome \in DeleteOutcomes(DeleteTarget(run[r]))
    /\ voices' = DeleteAtProvider(DeleteTarget(run[r]), outcome)
    /\ run' = [run EXCEPT ![r] = [@ EXCEPT
            !.deleteCalls = Append(@, [id |-> DeleteTarget(run[r]),
                                       outcome |-> outcome]),
            !.pc = "catchClear"]]
    /\ UNCHANGED <<now, db, nextVoice, stamped, rb, sw, he, samples, ui>>

\* the fields of the catch block's update when a voice id is held
CatchClearFields == [elevenlabs_voice_id |-> None, status |-> "failed"]

\* the catch block with a voice id: update({ elevenlabs_voice_id: null,
\* status: 'failed' }), then the error response
CatchClear(r, dbOk) ==
    /\ run[r].pc = "catchClear"
    /\ db' = RunUpdate(run[r], CatchClearFields, dbOk)
    /\ run' = [run EXCEPT ![r] =
            [Wrote(@, CatchClearFields, dbOk) EXCEPT
                !.response = ErrorResponse(run[r].response.error),
                !.pc = "returned"]]
    /\ UNCHANGED <<now, voices, nextVoice, stamped, rb, sw, he, samples, ui>>

\* the catch block without a voice id: update({ status: 'failed' }), then
\* the error response
CatchSetFailed(r, dbOk) ==
    /\ run[r].pc = "catchSetFailed"
    /\ db' = RunUpdate(run[r], [status |-> "failed"], dbOk)
    /\ run' = [run EXCEPT ![r] =
            [Wrote(@, [status |-> "failed"], dbOk) EXCEPT
                !.response = ErrorResponse(run[r].response.error),
                !.pc = "returned"]]
    /\ UNCHANGED <<now, voices, nextVoice, stamped, rb, sw, he, samples, ui>>

\* The caller of the function: the web client (GenerateVoiceDialog,
\* VoiceRecordingStudio).
\* the locals of the handler in progress and the last toast of the dialog
\* (the toasts of the studio are not kept)
IdleUi ==
    [ pc |-> "idle",
      projectId |-> None,       \* the project of the handler in progress
      i |-> 0,                  \* uploadAllClips: the loop's index
      uploadedCount |-> 0,      \* uploadAllClips: let uploadedCount
      worker |-> 0,             \* the invocation the dialog awaits (0: none)
      toast |-> "" ]

\* handleGenerate once invoke has returned: a non-2xx response is an error
\* of invoke, which is thrown and caught
AfterResponse(response) ==
    [IdleUi EXCEPT !.toast = IF response.ok THEN "Generation Started!"
                             ELSE "Generation Failed"]

\* the client once worker r has answered: the dialog that awaits this
\* response goes on, any other caller does nothing with it
ClientAfter(r) ==
    IF ui.pc = "awaiting" /\ ui.worker = r
    THEN AfterResponse(run[r].response)
    ELSE ui

\* the response reaches the caller; the invocation is over
Return(r) ==
    /\ run[r].pc = "returned"
    /\ run' = [run EXCEPT ![r] = IdleRun]
    /\ ui' = ClientAfter(r)
    /\ UNCHANGED <<now, db, voices, nextVoice, stamped, rb, sw, he, samples>>

\* time passes
Tick ==
    /\ now < MaxTime
    /\ now' = now + 1
    /\ UNCHANGED <<db, voices, nextVoice, run, stamped, rb, sw, he,
                   samples, ui>>

AllIdle == \A r \in Runs : run[r].pc = "idle"

---------------------------------------------------------------------------
(* The web client: the generate dialog (GenerateVoiceDialog) and the       *)
(* recording studio (VoiceRecordingStudio), which write voice_projects and *)
(* voice_samples from the browser                                          *)

MAX_SCRIPT_LENGTH == 10000

\* a text typed in the dialog: "Bye" between a no-break space and a
\* vertical tab
TextByeWide == <<160, 66, 121, 101, 11>>

\* the dialog's test of stability, similarityBoost and style
SettingsInRange(s) ==
    /\ s.stability >= 0 /\ s.stability <= 100
    /\ s.similarityBoost >= 0 /\ s.similarityBoost <= 100
    /\ s.style >= 0 /\ s.style <= 100

\* the columns the dialog writes
GenerateFields(trimmedScript, s) ==
    [ script_text |-> Some(trimmedScript),
      voice_stability |-> Some(s.stability),
      voice_similarity_boost |-> Some(s.similarityBoost),
      voice_style |-> Some(s.style),
      voice_speaker_boost |-> Some(s.speakerBoost) ]

\* handleGenerate up to its first await: the script is trimmed and tested,
\* the settings are tested, and the row is written; the database turns the
\* update down when it fails (dbOk) or breaks a CHECK constraint
handleGenerate(pid, scriptText, s, dbOk) ==
    /\ ui.pc = "idle"
    /\ LET trimmedScript == Trim(scriptText)
           fields == GenerateFields(trimmedScript, s)
           Refused(title) ==
                /\ ui' = [IdleUi EXCEPT !.toast = title]
                /\ db' = db
       IN  IF Len(trimmedScript) = 0 THEN Refused("Script Required")
           ELSE IF Len(trimmedScript) > MAX_SCRIPT_LENGTH
           THEN Refused("Script Too Long")
           ELSE IF ~SettingsInRange(s) THEN Refused("Invalid Parameters")
           ELSE IF dbOk /\ ParamsValid(fields)
           THEN /\ db' = DbUpdate(db, pid, fields, now)
                /\ ui' = [IdleUi EXCEPT !.pc = "saved",
                                        !.projectId = Some(pid)]
           ELSE Refused("Generation Failed")
    /\ UNCHANGED <<now, voices, nextVoice, run, stamped, rb, sw, he, samples>>

\* handleGenerate after the update: the POST to clone-voice, which worker r
\* takes and whose response the dialog awaits (loading), or which does not
\* get through
GenerateInvoke(r, reached) ==
    /\ ui.pc = "saved"
    /\ IF reached
       THEN /\ Invoke(r, ui.projectId)
            /\ ui' = [ui EXCEPT !.pc = "awaiting", !.worker = r]
       ELSE /\ ui' = [IdleUi EXCEPT !.toast = "Generation Failed"]
            /\ UNCHANGED <<now, db, voices, nextVoice, run, stamped, rb, sw,
                           he, samples>>

\* uploadAllClips, one turn of its loop for a clip that has a blob and is
\* not uploaded yet: the file is stored and a row is inserted in
\* voice_samples (ok), or one of the two fails and the clip is skipped;
\* the table holds at most Upto rows of a project
UploadClip(pid, ok, Upto) ==
    /\ \/ ui.pc = "idle"
       \/ ui.pc = "uploading" /\ ui.projectId = Some(pid)
    /\ ui.i < MaxClips
    /\ ok => samples[pid] < Upto
    /\ samples' = IF ok THEN [samples EXCEPT ![pid] = @ + 1] ELSE samples
    /\ ui' = [ui EXCEPT !.pc = "uploading",
                        !.projectId = Some(pid),
                        !.i = @ + 1,
                        !.uploadedCount = IF ok THEN @ + 1 ELSE @,
                        !.toast = ""]
    /\ UNCHANGED <<now, db, voices, nextVoice, run, stamped, rb, sw, he>>

\* uploadAllClips after its loop (at once when no clip is left to upload):
\* update({ clips_uploaded: uploadedCount }), whose result is not looked at
UpdateClipsUploaded(pid, dbOk) ==
    /\ \/ ui.pc = "idle"
       \/ ui.pc = "uploading" /\ ui.projectId = Some(pid)
    /\ db' = IF dbOk
             THEN DbUpdate(db, pid, [clips_uploaded |-> ui.uploadedCount], now)
             ELSE db
    /\ ui' = IdleUi
    /\ UNCHANGED <<now, voices, nextVoice, run, stamped, rb, sw, he, samples>>

\* the sliders' values of a submission (hundredths)
Sliders(stability, similarityBoost, style, speakerBoost) ==
    [ stability |-> stability, similarityBoost |-> similarityBoost,
      style |-> style, speakerBoost |-> speakerBoost ]

\* the steps of the generate dialog on one of Pids, with one of Texts and
\* one of Settings, the database and the function answering as Answers
\* says and a worker of Workers taking the request
DialogOf(Pids, Texts, Settings, Answers, Workers) ==
    \/ \E pid \in Pids, scriptText \in Texts, s \in Settings,
          dbOk \in Answers :
            handleGenerate(pid, scriptText, s, dbOk)
    \/ \E r \in Workers, reached \in Answers : GenerateInvoke(r, reached)

\* the steps of the recording studio on one of Pids
StudioOf(Pids, Answers, Upto) ==
    \/ \E pid \in Pids, ok \in BOOLEAN : UploadClip(pid, ok, Upto)
    \/ \E pid \in Pids, dbOk \in Answers : UpdateClipsUploaded(pid, dbOk)

---------------------------------------------------------------------------
(* The cleanup-voices job (the Sweeper)                                    *)

\* minutes after which a row that still holds a voice id counts as stuck
STUCK_MINUTES == 60

\* pass (a)'s query: rows with a voice id that are failed, completed, or not
\* updated since the cutoff t - 60 min
SweepSelect(table, t) ==
    { p \in DOMAIN table :
        /\ ~IsNull(table[p].elevenlabs_voice_id)
        /\ \/ table[p].status = "failed"
           \/ table[p].status = "completed"
           \/ table[p].updated_at < t - STUCK_MINUTES }

\* the rows the query returns
SweepRows(table, t) ==
    { [id |-> p, elevenlabs_voice_id |-> Val(table[p].elevenlabs_voice_id)] :
        p \in SweepSelect(table, t) }

\* pass (b)'s query: the voice ids the table holds
KnownVoiceIds(table) ==
    { Val(table[p].elevenlabs_voice_id) :
        p \in {q \in DOMAIN table : ~IsNull(table[q].elevenlabs_voice_id)} }

\* mutant of IsOrphan: the name of the voice is not looked at
IsOrphanAnyName(voice, known) == voice.voice_id \notin known

\* pass (b)'s test on a listed voice
IsOrphan(voice, known) ==
    StartsWith(voice.name, "Voice_") /\ voice.voice_id \notin known

NoSweepResponse ==
    [ok |-> FALSE, status |-> 0, cleaned |-> 0, failed |-> 0, error |-> ""]

\* the job's locals (pc .. response: the rows of pass (a) still to do, the
\* row whose update is awaited, the voices listed, the voices pass (b) has
\* still to delete, the counts) and history: the number of finished
\* jobs, what this job selected, deleted and counted as cleaned, pass (a)'s
\* DELETE calls with their answers, the voice ids pass (b) read from the
\* table and the voices it called DELETE on, whether all its provider
\* calls and database operations went through, and the previous job's
\* summary
IdleSweep ==
    [ pc |-> "idle",
      queue |-> {},
      current |-> None,
      listed |-> {},
      targets |-> {},
      cleanedCount |-> 0,
      failedCount |-> 0,
      response |-> NoSweepResponse,
      sweeps |-> 0,
      selectedProjects |-> {},
      deleteCalls |-> {},
      answered |-> {},
      known |-> {},
      orphans |-> {},
      cleanedProjects |-> {},
      cleanedVoices |-> {},
      providerOk |-> TRUE,
      dbOk |-> TRUE,
      prev |-> None ]

\* the result object and its 200 response
SweepResult(rec) ==
    [rec EXCEPT !.pc = "returned",
                !.response = [ok |-> TRUE, status |-> 200,
                              cleaned |-> rec.cleanedCount,
                              failed |-> rec.failedCount,
                              error |-> ""]]

\* the outer catch: a 500 response with the error's message
SweepError(rec, message) ==
    [rec EXCEPT !.pc = "returned",
                !.response = [ok |-> FALSE, status |-> 500,
                              cleaned |-> 0, failed |-> 0,
                              error |-> message]]

\* the fields pass (a) writes to a row whose voice is gone
SweepClearFields(project) == [elevenlabs_voice_id |-> None]

\* mutant of AfterPassA: the job ends with pass (a)
AfterPassAEnd(rec) ==
    IF rec.queue = {} THEN SweepResult(rec) ELSE rec

\* after pass (a)'s loop: on to the listing of the provider's voices
AfterPassA(rec) ==
    IF rec.queue = {} THEN [rec EXCEPT !.pc = "list"] ELSE rec

\* after pass (b)'s loop: the result
AfterPassB(rec) ==
    IF rec.targets = {} THEN SweepResult(rec) ELSE rec

\* the job starts: the API key is read and pass (a)'s query is made
SweepStart(keyOk, dbOk) ==
    /\ sw.pc = "idle"
    /\ LET rec == [sw EXCEPT
                !.queue = {}, !.targets = {},
                !.cleanedCount = 0, !.failedCount = 0,
                !.selectedProjects = {}, !.deleteCalls = {},
                !.answered = {}, !.known = {}, !.orphans = {},
                !.cleanedProjects = {}, !.cleanedVoices = {},
                !.providerOk = TRUE,
                !.dbOk = keyOk => dbOk]
       IN sw' = IF ~keyOk
                THEN SweepError(rec, "ElevenLabs API key not configured")
                ELSE IF ~dbOk
                THEN SweepError(rec, "query failed")
                ELSE AfterPassA([rec EXCEPT
                        !.pc = "passA",
                        !.queue = SweepRows(db, now),
                        !.selectedProjects = SweepSelect(db, now)])
    /\ UNCHANGED <<now, db, voices, nextVoice, run, stamped, rb, he,
                   samples, ui>>

\* mutant of SweepItemA: a failed DELETE ends the job
SweepItemARaise(rec, project, outcome) ==
    LET gone == outcome \in {"ok", "not_found"}
        next == [rec EXCEPT
            !.deleteCalls = @ \cup {project.elevenlabs_voice_id},
            !.answered = @ \cup {[id |-> project.id,
                                  voice |-> project.elevenlabs_voice_id,
                                  outcome |-> outcome]},
            !.providerOk = @ /\ gone]
    IN  IF gone
        THEN [next EXCEPT !.pc = "clearA", !.current = Some(project)]
        ELSE SweepError([next EXCEPT !.queue = @ \ {project}],
                        "delete failed")

\* the job's locals once the DELETE of pass (a) for one row is answered: on
\* OK or 404 the row's update comes next; otherwise (another status, or the
\* fetch throws) failed is counted and the loop goes on
SweepItemA(rec, project, outcome) ==
    LET gone == outcome \in {"ok", "not_found"}
        next == [rec EXCEPT
            !.deleteCalls = @ \cup {project.elevenlabs_voice_id},
            !.answered = @ \cup {[id |-> project.id,
                                  voice |-> project.elevenlabs_voice_id,
                                  outcome |-> outcome]},
            !.providerOk = @ /\ gone]
    IN  IF gone
        THEN [next EXCEPT !.pc = "clearA", !.current = Some(project)]
        ELSE AfterPassA([next EXCEPT !.queue = @ \ {project},
                                     !.failedCount = @ + 1])

\* pass (a), one row: DELETE its voice
SweepDeleteA(project, outcome) ==
    /\ sw.pc = "passA"
    /\ project \in sw.queue
    /\ outcome \in DeleteOutcomes(project.elevenlabs_voice_id)
    /\ sw' = SweepItemA(sw, project, outcome)
    /\ voices' = DeleteAtProvider(project.elevenlabs_voice_id, outcome)
    /\ UNCHANGED <<now, db, nextVoice, run, stamped, rb, he, samples, ui>>

\* pass (a), the row whose voice is gone: its voice id is set to null (the
\* update's result is not looked at), cleaned is counted and the loop goes
\* on
SweepClearA(dbOk) ==
    /\ sw.pc = "clearA"
    /\ LET project == Val(sw.current)
       IN /\ db' = IF dbOk
                   THEN DbUpdate(db, project.id, SweepClearFields(project),
                                 now)
                   ELSE db
          /\ sw' = AfterPassA([sw EXCEPT
                    !.pc = "passA",
                    !.current = None,
                    !.queue = @ \ {project},
                    !.cleanedCount = @ + 1,
                    !.cleanedProjects = @ \cup {project.id},
                    !.cleanedVoices = @ \cup {project.elevenlabs_voice_id},
                    !.dbOk = @ /\ dbOk])
    /\ UNCHANGED <<now, voices, nextVoice, run, stamped, rb, he, samples, ui>>

\* pass (b): GET /voices is answered; a non-OK or failed listing ends
\* pass (b)
SweepList(outcome) ==
    /\ sw.pc = "list"
    /\ sw' = IF outcome = "ok"
             THEN [sw EXCEPT !.pc = "known", !.listed = voices]
             ELSE SweepResult([sw EXCEPT !.providerOk = FALSE])
    /\ UNCHANGED <<now, db, voices, nextVoice, run, stamped, rb, he,
                   samples, ui>>

\* pass (b): the voice ids of the table are read (no rows when the read
\* fails) and the loop over the listed voices starts; targets are the
\* voices it will call DELETE on
SweepKnown(dbOk) ==
    /\ sw.pc = "known"
    /\ LET known == IF dbOk THEN KnownVoiceIds(db) ELSE {}
       IN sw' = AfterPassB([sw EXCEPT
                    !.pc = "passB",
                    !.dbOk = @ /\ dbOk,
                    !.known = known,
                    !.targets = {v \in sw.listed : IsOrphan(v, known)},
                    !.listed = {}])
    /\ UNCHANGED <<now, db, voices, nextVoice, run, stamped, rb, he,
                   samples, ui>>

\* pass (b), one orphan: DELETE it; only an OK answer counts as cleaned
SweepDeleteB(voice, outcome) ==
    /\ sw.pc = "passB"
    /\ voice \in sw.targets
    /\ outcome \in DeleteOutcomes(voice.voice_id)
    /\ LET rec == [sw EXCEPT
                !.targets = @ \ {voice},
                !.deleteCalls = @ \cup {voice.voice_id},
                !.orphans = @ \cup {voice},
                !.cleanedCount = IF outcome = "ok" THEN @ + 1 ELSE @,
                !.cleanedVoices =
                    IF outcome = "ok" THEN @ \cup {voice.voice_id} ELSE @,
                !.providerOk = @ /\ outcome = "ok"]
       IN /\ sw' = AfterPassB(rec)
          /\ voices' = DeleteAtProvider(voice.voice_id, outcome)
    /\ UNCHANGED <<now, db, nextVoice, run, stamped, rb, he, samples, ui>>

\* the response is sent; the job's summary is kept as history (jobs are
\* counted up to MaxSweeps)
SweepReturn ==
    /\ sw.pc = "returned"
    /\ sw' = [sw EXCEPT
                !.pc = "idle",
                !.sweeps = Min(@ + 1, MaxSweeps),
                !.prev = Some([response |-> sw.response,
                               cleanedProjects |-> sw.cleanedProjects,
                               cleanedVoices |-> sw.cleanedVoices,
                               providerOk |-> sw.providerOk])]
    /\ UNCHANGED <<now, db, voices, nextVoice, run, stamped, rb, he,
                   samples, ui>>

\* time passes between two jobs
SweepWait ==
    /\ sw.pc = "idle"
    /\ now < STUCK_MINUTES + MaxTime
    /\ now' = now + 1
    /\ UNCHANGED <<db, voices, nextVoice, run, stamped, rb, sw, he,
                   samples, ui>>


---------------------------------------------------------------------------
(* Specification of one caller: invocations follow one another             *)

SeqRequestIds == {Some("p1"), Some("ghost"), Some(""), None}

InitBase ==
    /\ now = 0
    /\ voices = {}
    /\ nextVoice = 1
    /\ run = [r \in Runs |-> IdleRun]
    /\ stamped = [p \in ProjectIds |-> None]
    /\ rb = [rs |-> NoRetry, log |-> <<>>]
    /\ sw = IdleSweep
    /\ he = NoCall
    /\ ui = IdleUi

\* no clip is uploaded yet
InitCommon ==
    /\ InitBase
    /\ samples = [p \in ProjectIds |-> 0]

\* p1 and p2 as the create dialogs inserted them, no clip uploaded yet, and
\* p1 with a script or settings written since
Init ==
    /\ InitCommon
    /\ \E script \in Scripts, params \in ParamProfiles :
          /\ script = Some(ScriptHi) \/ params = DefaultParams
          /\ db = [p \in ProjectIds |->
                    IF p = "p1" THEN NewRow(script, params)
                    ELSE NewRow(Some(ScriptHi), DefaultParams)]

\* a POST to clone-voice that does not come from the generate dialog (the
\* create dialog sends one, and so may any holder of the project's id)
Start ==
    \E req \in SeqRequestIds : AllIdle /\ Invoke(1, req) /\ UNCHANGED ui

\* the kinds of answer of the provider to createVoice and synthesize
AnswerKinds == {"ok", "ok_without_id", "ok_empty", "http_error", "throw"}

\* a step of invocation r before its response is delivered: the updates are
\* answered as Answers says, at most MaxFail downloads of the run fail, the
\* provider answers with one of Kinds and creates at most MaxNew voices
RunStepOf(r, Answers, MaxFail, Kinds, MaxNew) ==
        \/ \E dbOk \in BOOLEAN : FetchProject(r, dbOk)
        \/ \E dbOk \in BOOLEAN : FetchSamples(r, dbOk)
        \/ \E dbOk \in Answers : SetAnalyzing(r, dbOk)
        \/ \E o \in DownloadOutcomes :
              /\ o = "ok" \/ Len(run[r].failed) < MaxFail
              /\ Download(r, o)
        \/ \E o \in CreateOutcomes :
              /\ o.kind \in Kinds
              /\ o.kind = "ok" => nextVoice <= MaxNew
              /\ CreateVoice(r, o)
        \/ \E dbOk \in Answers : StoreVoiceId(r, dbOk)
        \/ \E o \in SynthOutcomes : o.kind \in Kinds /\ Synthesize(r, o)
        \/ \E ok \in BOOLEAN : Upload(r, ok)
        \/ \E dbOk \in Answers : Finalize(r, dbOk)
        \/ \E o \in {"ok", "not_found", "http_error", "throw"} : ReleaseVoice(r, o)
        \/ \E o \in {"ok", "not_found", "http_error", "throw"} : CatchDeleteVoice(r, o)
        \/ \E dbOk \in Answers : CatchClear(r, dbOk)
        \/ \E dbOk \in Answers : CatchSetFailed(r, dbOk)

\* the steps of the invocations, the delivery of their responses included
StepOf(Answers, MaxFail, Kinds, MaxNew) ==
    \E r \in Runs :
        \/ RunStepOf(r, Answers, MaxFail, Kinds, MaxNew)
        \/ Return(r)

\* the steps with every failure and answer of the provider
StepWith(Answers) == StepOf(Answers, MaxSamples, AnswerKinds, MaxVoices)

\* every update of the handler takes effect, or is answered with an error
\* the handler does not look at; the provider creates MaxCreated voices
Step == StepOf(BOOLEAN, MaxSamples, AnswerKinds, MaxCreated)

\* the steps of runs all of whose updates take effect
StepOk == StepWith({TRUE})

\* what the user of p1 types and sets in the generate dialog: a script or
\* white space, settings in range or a stability of 1.5
DialogTexts == {TextByeWide, ScriptBlank}
DialogSettings == {Sliders(0, 75, 30, FALSE), Sliders(150, 75, 0, TRUE)}

\* the user of p1 uploads clips and asks for a generation while no
\* invocation is in progress
ClientWith(Answers) ==
    /\ AllIdle
    /\ \/ DialogOf({"p1"}, DialogTexts, DialogSettings, Answers, {1})
       \/ StudioOf({"p1"}, Answers, MaxSamples)

\* the writes of the dialog and of the studio take effect
Client == ClientWith({TRUE})

Next == Start \/ Step \/ Client

Spec == Init /\ [][Next]_vars

---------------------------------------------------------------------------
(* Properties of a generation run                                          *)

Returned(rec) == rec.pc = "returned"
Loaded(rec) == ~IsNull(rec.project)
RowOf(rec) == db[Pid(rec)]

\* the download loop of the run is over
DownloadsDone(rec) ==
    rec.nSamples > 0 /\ rec.i = Min(rec.nSamples, MAX_FILES)

SeqToSet(q) == {q[k] : k \in 1..Len(q)}

\* C1: when an invocation on a project with at least one sample and a
\* valid script returns, the row is completed with an audio url and no
\* voice id (success response), or failed with no voice id (error response).
C1_CompletedOrFailedNoVoiceId ==
    \A r \in Runs :
        (Returned(run[r]) /\ Loaded(run[r]) /\ run[r].nSamples >= 1
            /\ ScriptValid(Val(run[r].project)))
        => \/ /\ run[r].response.ok
              /\ RowOf(run[r]).status = "completed"
              /\ ~IsNull(RowOf(run[r]).generated_audio_url)
              /\ IsNull(RowOf(run[r]).elevenlabs_voice_id)
           \/ /\ ~run[r].response.ok
              /\ RowOf(run[r]).status = "failed"
              /\ IsNull(RowOf(run[r]).elevenlabs_voice_id)

\* C2 as claimed: once an invocation has returned, the voice it created no
\* longer exists at the provider.
C2_CreatedVoiceGoneAtReturn ==
    \A r \in Runs :
        (Returned(run[r]) /\ ~IsNull(run[r].created))
        => Val(run[r].created) \notin VoiceIds

\* C2 amended: an invocation that was handed a voice id has issued exactly
\* one delete call, against that id, by the time it returns; when that call
\* was answered OK the voice no longer exists at the provider; an
\* invocation that was handed no voice id issues no delete call.
C2_OneDeleteAttemptPerCreatedVoice ==
    \A r \in Runs :
        Returned(run[r]) =>
            IF IsNull(run[r].created)
            THEN run[r].deleteCalls = <<>>
            ELSE /\ Len(run[r].deleteCalls) = 1
                 /\ run[r].deleteCalls[1].id = Val(run[r].created)
                 /\ run[r].deleteCalls[1].outcome = "ok"
                        => Val(run[r].created) \notin VoiceIds

\* C2 witness: an invocation returned after a delete call that the provider
\* did not answer OK; its voice is still there
C2_Witness ==
    \E r \in Runs :
        /\ Returned(run[r]) /\ ~IsNull(run[r].created)
        /\ Len(run[r].deleteCalls) = 1
        /\ run[r].deleteCalls[1].outcome # "ok"
        /\ Val(run[r].created) \in VoiceIds

\* C3: an invocation that was handed a voice id and failed afterwards
\* returns with the row failed, the stored voice id cleared, and a delete
\* call attempted against its voice id, whatever that call's result.
C3_FailureAfterCreateCleansUp ==
    \A r \in Runs :
        (Returned(run[r]) /\ ~IsNull(run[r].created) /\ ~run[r].response.ok)
        => /\ RowOf(run[r]).status = "failed"
           /\ IsNull(RowOf(run[r]).elevenlabs_voice_id)
           /\ \E k \in 1..Len(run[r].deleteCalls) :
                    run[r].deleteCalls[k].id = Val(run[r].created)

\* C5 as claimed: an invocation on a project whose script is absent or
\* blank makes no provider call.
C5_BlankScriptNoProviderCall ==
    \A r \in Runs :
        (Loaded(run[r]) /\ ~ScriptValid(Val(run[r].project)))
        => NoProviderCall(run[r])

\* C7: after the download loop, a run without a surviving sample is in its
\* failure path and never calls createVoice; a run with a survivor goes on
\* to createVoice, and the files it holds are exactly the samples that did
\* not fail.
C7_PartialDownloadFailure ==
    \A r \in Runs :
        DownloadsDone(run[r]) =>
            /\ SeqToSet(run[r].files) \cap SeqToSet(run[r].failed) = {}
            /\ SeqToSet(run[r].files) \cup SeqToSet(run[r].failed)
                    = 0..(run[r].i - 1)
            /\ Len(run[r].files) = 0 =>
                    /\ ~run[r].calledCreate
                    /\ run[r].pc \in {"catchSetFailed", "returned"}
                    /\ ~run[r].response.ok
            /\ (Len(run[r].files) > 0 /\ ~run[r].calledCreate) =>
                    run[r].pc = "createVoice"

\* C7 witness: all samples but one failed and the run completed
C7_Witness ==
    \E r \in Runs :
        /\ Returned(run[r]) /\ run[r].response.ok
        /\ run[r].nSamples >= 2
        /\ Len(run[r].failed) = run[r].nSamples - 1
        /\ Len(run[r].files) = 1

\* the value sent for a stored value: the value itself unless it is null
SentFor(stored, default) == IF stored = None THEN default ELSE stored[1]

\* C9: the voice_settings of a synthesize request are the values the row
\* held when the invocation began, a null alone being replaced by its
\* default (0.5, 0.75, 0.0, true).
C9_VoiceSettingsRoundTrip ==
    \A r \in Runs :
        ~IsNull(run[r].sent) =>
            LET row == Val(run[r].rowAtStart)
                vs == Val(run[r].sent)
            IN  /\ vs.stability = SentFor(row.voice_stability, 50)
                /\ vs.similarity_boost = SentFor(row.voice_similarity_boost, 75)
                /\ vs.style = SentFor(row.voice_style, 0)
                /\ vs.use_speaker_boost = SentFor(row.voice_speaker_boost, TRUE)

\* C9 witness: a 0 and a false that the generate dialog wrote (with a
\* style of 0.3) were sent as 0 and false
C9_Witness ==
    \E r \in Runs :
        /\ ~IsNull(run[r].sent)
        /\ Val(run[r].rowAtStart).voice_stability = Some(0)
        /\ Val(run[r].rowAtStart).voice_speaker_boost = Some(FALSE)
        /\ Val(run[r].rowAtStart).voice_style = Some(30)
        /\ Val(run[r].sent).stability = 0
        /\ Val(run[r].sent).use_speaker_boost = FALSE
        /\ Val(run[r].sent).style = 30

---------------------------------------------------------------------------
(* Specification with a clock: invocations of one caller, minutes apart    *)

InitRate ==
    /\ InitCommon
    /\ db = [p \in ProjectIds |-> NewRow(Some(ScriptHi), DefaultParams)]

StartTimed == AllIdle /\ Invoke(1, Some("p1")) /\ UNCHANGED ui

\* time passes between two invocations
Wait == AllIdle /\ Tick

\* the user uploads a clip and asks through the generate dialog, with a
\* script and settings in range
ClientLite(Answers) ==
    /\ AllIdle
    /\ \/ DialogOf({"p1"}, {TextByeWide}, {Sliders(0, 75, 30, FALSE)}, Answers, {1})
       \/ StudioOf({"p1"}, Answers, 1)

NextRate == StartTimed \/ StepOk \/ Wait \/ ClientLite({TRUE})

SpecRate == InitRate /\ [][NextRate]_vars

\* C4 as claimed: an invocation that starts less than 5 minutes after a
\* run on the same project reached the point where last_generation_at is
\* stamped makes no provider call, leaves the row as it found it, and is
\* answered 429.
C4_SecondCallRateLimited ==
    \A r \in Runs :
        run[r].inCooldown =>
            /\ NoProviderCall(run[r])
            /\ RowOf(run[r]) = Val(run[r].rowAtStart)
            /\ Returned(run[r]) =>
                    (~run[r].response.ok /\ run[r].response.status = 429)

---------------------------------------------------------------------------
(* Specification of the helper alone: one call retryWithBackoff(fn,        *)
(* maxRetries, initialDelay) with an arbitrary fn.  rb.rs is the call's    *)
(* state and rb.log the outcomes of the invocations of fn, in order.       *)

RetryDelays == {1000, 2000}

\* what an invocation of fn can do: resolve with a value, or reject with an
\* Error or with a value that is not an Error (here undefined)
FnOutcomes ==
    {FnOk("a"), FnOk("b"),
     FnThrow(Err("E1")), FnThrow(Err("E2")), FnThrow(Undefined)}

InitRetry ==
    /\ now = 0
    /\ voices = {}
    /\ nextVoice = 1
    /\ run = [r \in Runs |-> IdleRun]
    /\ stamped = [p \in ProjectIds |-> None]
    /\ db = [p \in ProjectIds |-> NewRow(Some(ScriptHi), DefaultParams)]
    /\ sw = IdleSweep
    /\ he = NoCall
    /\ samples = [p \in ProjectIds |-> 0]
    /\ ui = IdleUi
    /\ \E m \in 0..MaxRetriesArg, d \in RetryDelays :
          rb = [rs |-> RetryBegin(m, d), log |-> <<>>]

\* fn is awaited once more
RetryCall(res) ==
    /\ rb.rs.state = "loop"
    /\ rb' = [rs |-> RetryAttempt(rb.rs, res), log |-> Append(rb.log, res)]
    /\ UNCHANGED <<now, db, voices, nextVoice, run, stamped, sw, he,
                   samples, ui>>

NextRetry == \E res \in FnOutcomes : RetryCall(res)

SpecRetry == InitRetry /\ [][NextRetry]_vars

RetryDone == rb.rs.state \in {"returned", "threw"}

\* The calls the handler makes: retryWithBackoff(fn, 3, 2000) around
\* createVoice and around synthesize, whose fn resolves with a value or
\* rejects with an Error
FnCallOutcomes ==
    {FnOk("a"), FnOk("b"),
     FnThrow(Err("E1")), FnThrow(Err("E2")),
     FnThrow(Err("E3")), FnThrow(Err("E4"))}

InitRetryCalls ==
    /\ now = 0
    /\ voices = {}
    /\ nextVoice = 1
    /\ run = [r \in Runs |-> IdleRun]
    /\ stamped = [p \in ProjectIds |-> None]
    /\ db = [p \in ProjectIds |-> NewRow(Some(ScriptHi), DefaultParams)]
    /\ sw = IdleSweep
    /\ he = NoCall
    /\ samples = [p \in ProjectIds |-> 0]
    /\ ui = IdleUi
    /\ rb = [rs |-> RetryBegin(RETRIES, INITIAL_DELAY), log |-> <<>>]

NextRetryCalls == \E res \in FnCallOutcomes : RetryCall(res)

SpecRetryCalls == InitRetryCalls /\ [][NextRetryCalls]_vars

\* C10: fn is invoked at least once and at most maxRetries times,
\* the call stops at the first invocation that succeeds and returns its
\* result, and after maxRetries failures it throws exactly the error of the
\* last invocation.
C10_RetryAsStated ==
    RetryDone =>
        /\ Len(rb.log) >= 1
        /\ Len(rb.log) <= rb.rs.maxRetries
        /\ \A k \in 1..(Len(rb.log) - 1) : ~rb.log[k].ok
        /\ rb.rs.state = "returned" =>
              /\ rb.log[Len(rb.log)].ok
              /\ rb.rs.value = Some(rb.log[Len(rb.log)].value)
        /\ rb.rs.state = "threw" =>
              /\ Len(rb.log) = rb.rs.maxRetries
              /\ ~rb.log[Len(rb.log)].ok
              /\ rb.rs.thrown = rb.log[Len(rb.log)].error

\* C10 witness: a call that threw the last of several different errors
\* after using up its attempts, having waited in between
C10_Witness ==
    /\ rb.rs.state = "threw"
    /\ rb.rs.maxRetries = RETRIES
    /\ Len(rb.log) = 3
    /\ rb.log[1].error = Err("E1")
    /\ rb.log[3].error = Err("E2")
    /\ rb.rs.thrown = Err("E2")
    /\ rb.rs.delays = <<INITIAL_DELAY, 2 * INITIAL_DELAY>>

---------------------------------------------------------------------------
(* Specification of the Sweeper alone: jobs follow one another and nothing *)
(* else changes the table or the provider's voices                         *)

SweepT0 == STUCK_MINUTES + MaxTime - 1

\* p1 holds voice 1 and is failed, completed, stuck, or about to be stuck
SweepP1Rows ==
    { [NewRow(Some(ScriptHi), DefaultParams) EXCEPT
            !.status = st, !.elevenlabs_voice_id = Some(1), !.updated_at = u] :
        st \in {"failed", "completed", "analyzing"}, u \in {0, MaxTime - 1} }

\* p2 is in progress, without a voice yet or holding voice 2, or is failed
\* and holds voice 2
SweepP2Rows ==
    { [NewRow(Some(ScriptHi), DefaultParams) EXCEPT
            !.status = "generating", !.elevenlabs_voice_id = v,
            !.updated_at = SweepT0] :
        v \in {None, Some(2)} }
    \cup
    { [NewRow(Some(ScriptHi), DefaultParams) EXCEPT
            !.status = "failed", !.elevenlabs_voice_id = Some(2),
            !.updated_at = SweepT0] }

\* the voices of the provider account: those of p1 and p2, one left behind
\* by an earlier run, and one that is not of this application
SweepVoices ==
    { [voice_id |-> 1, name |-> VoiceName("p1")],
      [voice_id |-> 2, name |-> VoiceName("p2")],
      [voice_id |-> 3, name |-> VoiceName("p0")],
      [voice_id |-> 4, name |-> "Narrator"] }

InitSweep ==
    /\ now = SweepT0
    /\ nextVoice = 1
    /\ run = [r \in Runs |-> IdleRun]
    /\ stamped = [p \in ProjectIds |-> None]
    /\ rb = [rs |-> NoRetry, log |-> <<>>]
    /\ sw = IdleSweep
    /\ he = NoCall
    /\ samples = [p \in ProjectIds |-> 1]
    /\ ui = IdleUi
    /\ voices \in SUBSET SweepVoices
    /\ \E r1 \in SweepP1Rows, r2 \in SweepP2Rows :
          db = [p \in ProjectIds |-> IF p = "p1" THEN r1 ELSE r2]

SweepOutcomes == {"ok", "not_found", "http_error", "throw"}

\* the steps of the job, the API key being there and the database
\* answering as Answers says
SweepStepOf(Answers) ==
    \/ \E keyOk \in Answers, dbOk \in Answers : SweepStart(keyOk, dbOk)
    \/ \E project \in sw.queue, o \in SweepOutcomes :
            SweepDeleteA(project, o)
    \/ \E dbOk \in Answers : SweepClearA(dbOk)
    \/ \E o \in {"ok", "http_error", "throw"} : SweepList(o)
    \/ \E dbOk \in Answers : SweepKnown(dbOk)
    \/ \E voice \in sw.targets, o \in SweepOutcomes : SweepDeleteB(voice, o)
    \/ SweepReturn

\* the steps of at most MaxSweeps jobs
SweepStepWith(Answers) ==
    /\ sw.pc = "idle" => sw.sweeps < MaxSweeps
    /\ SweepStepOf(Answers)

\* the user of p1 is in the recording studio while the jobs go on: a clip
\* fails to upload, the count of uploaded clips is written
Studio == StudioOf({"p1"}, {TRUE}, 1)

NextSweep == SweepStepWith(BOOLEAN) \/ SweepWait \/ Studio

SpecSweep == InitSweep /\ [][NextSweep]_vars

\* a job that follows another one has answered
SecondSweepDone ==
    /\ sw.pc = "returned"
    /\ ~IsNull(sw.prev)
    /\ sw.response.ok

\* no item the previous job counted as cleaned is selected or deleted again
NothingCleanedTwice ==
    /\ Val(sw.prev).cleanedProjects \cap sw.selectedProjects = {}
    /\ Val(sw.prev).cleanedVoices \cap sw.deleteCalls = {}

\* the jobs follow one another at once: between two jobs no row and no
\* voice of the provider changes and no time passes
NextSweepTwice == SweepStepWith(BOOLEAN)

SpecSweepTwice == InitSweep /\ [][NextSweepTwice]_vars

\* C8: a job that follows another one, with no change to the table or the
\* provider's voices in between, reports zero cleaned items and neither
\* selects nor deletes an item the first job counted as cleaned.
C8_SecondSweepZeroCleaned ==
    SecondSweepDone =>
        /\ sw.response.cleaned = 0
        /\ NothingCleanedTwice

---------------------------------------------------------------------------
(* Specification of the classifier alone: one call                         *)
(* handleElevenLabsError(response, operation) on a non-OK response         *)

ErrorStatuses == {400, 401, 402, 404, 422, 429, 500, 502, 503, 504}

ErrorBodies ==
    { DetailBody("Unauthorized"),
      DetailBody("Audio file is corrupted"),
      DetailBody("You have reached your voice limit"),
      DetailBody("Unsupported format"),
      MessageBody("maximum number of voices"),
      JsonBody(None, None, "{}"),
      TextBody("Bad gateway") }

Operations == {"voice creation", "speech generation"}

InitClassify ==
    /\ now = 0
    /\ voices = {}
    /\ nextVoice = 1
    /\ run = [r \in Runs |-> IdleRun]
    /\ stamped = [p \in ProjectIds |-> None]
    /\ db = [p \in ProjectIds |-> NewRow(Some(ScriptHi), DefaultParams)]
    /\ rb = [rs |-> NoRetry, log |-> <<>>]
    /\ sw = IdleSweep
    /\ samples = [p \in ProjectIds |-> 0]
    /\ ui = IdleUi
    /\ \E st \in ErrorStatuses, b \in ErrorBodies, op \in Operations :
          he = [ state |-> "called", response |-> [status |-> st, body |-> b],
                 operation |-> op, thrown |-> Undefined ]

\* the call runs to its throw
Classify ==
    /\ he.state = "called"
    /\ he' = [he EXCEPT !.state = "threw",
                        !.thrown = ElevenLabsError(he.response, he.operation)]
    /\ UNCHANGED <<now, db, voices, nextVoice, run, stamped, rb, sw,
                   samples, ui>>

NextClassify == Classify

SpecClassify == InitClassify /\ [][NextClassify]_vars

\* the error kind of the taxonomy that a thrown value stands for, and the
\* sub-reason of an InvalidInput
ErrorKind(e) ==
    CASE e.kind # "Error" -> "Unknown"
      [] e.message = "ElevenLabs API key is invalid or expired. Please update your API key."
            -> "AuthError"
      [] e.message = "ElevenLabs quota exceeded. Please check your subscription or wait until your quota resets."
            -> "QuotaExceeded"
      [] e.message = "Voice limit reached on your ElevenLabs account. Please delete unused voices or upgrade your plan."
            -> "QuotaExceeded"
      [] e.message = "Invalid audio format or corrupted audio files. Please re-record your voice samples."
            -> "InvalidInput"
      [] e.message = "Invalid request data. Please check your voice settings and try again."
            -> "InvalidInput"
      [] e.message = "Audio format not supported. Please ensure recordings are in MP3 format."
            -> "InvalidInput"
      [] e.message = "Rate limit exceeded. Please wait a moment and try again."
            -> "RateLimited"
      [] e.message = "ElevenLabs service is temporarily unavailable. Please try again in a few minutes."
            -> "ProviderUnavailable"
      [] OTHER -> "Unknown"

AudioReason(e) ==
    e.message = "Invalid audio format or corrupted audio files. Please re-record your voice samples."

\* C12: the classifier maps a non-OK response to one kind by its status:
\* 401 AuthError, 402 QuotaExceeded, 422 InvalidInput (audio sub-reason
\* exactly when the message mentions "audio"), 429 RateLimited, 500..599
\* ProviderUnavailable, any other status Unknown unless the message matches
\* a quota or format phrase.
C12_ClassifierByStatus ==
    he.state = "threw" =>
        LET st == he.response.status
            k == ErrorKind(he.thrown)
        IN  /\ st = 401 => k = "AuthError"
            /\ st = 402 => k = "QuotaExceeded"
            /\ st = 422 =>
                    /\ k = "InvalidInput"
                    /\ AudioReason(he.thrown) <=>
                            Includes(ToLowerCase(ErrorMessageOf(he.response.body)),
                                     "audio")
            /\ st = 429 => k = "RateLimited"
            /\ (st >= 500 /\ st <= 599) => k = "ProviderUnavailable"
            /\ (st \notin {401, 402, 422, 429} /\ (st < 500 \/ st > 599)) =>
                    k \in {"Unknown", "QuotaExceeded", "InvalidInput"}

---------------------------------------------------------------------------
(* Provider failures of a run                                              *)

NonTransientKinds == {"AuthError", "QuotaExceeded", "InvalidInput"}

\* C11: a provider call whose failure was classified as non-transient
\* (AuthError, QuotaExceeded, InvalidInput) is not retried: retryWithBackoff
\* throws at once, having issued the call once since its last transient
\* failure, and never goes on to another attempt.
C11_NonTransientNotRetried ==
    \A r \in Runs :
        ( /\ run[r].retry.state # "none"
          /\ ~IsNull(run[r].retry.lastError)
          /\ ErrorKind(Val(run[r].retry.lastError)) \in NonTransientKinds )
        => run[r].retry.state = "threw"

\* the HTTP-style status that goes with an error kind
StatusOfKind(kind) ==
    CASE kind = "AuthError" -> 401
      [] kind = "QuotaExceeded" -> 402
      [] kind = "InvalidInput" -> 422
      [] kind = "RateLimited" -> 429
      [] OTHER -> 500

\* C13: a run that failed because the provider rejected createVoice or
\* synthesize answers its caller with the status of the provider error
\* kind: AuthError 401, QuotaExceeded 402, InvalidInput 422, RateLimited
\* 429, anything else 500.
C13_StatusMatchesKind ==
    \A r \in Runs :
        (Returned(run[r]) /\ run[r].retry.state = "threw") =>
            /\ ~run[r].response.ok
            /\ run[r].response.error = run[r].retry.thrown.message
            /\ run[r].response.status =
                    StatusOfKind(ErrorKind(run[r].retry.thrown))

---------------------------------------------------------------------------
(* Rejected runs                                                           *)

\* the messages of the checks made before any work is done
ValidationMessages ==
    { "Project ID is required",
      "Project not found",
      "No voice samples found for this project" }

\* the run was turned down by a validation rule or by the cool-down
Rejected(rec) ==
    \/ rec.response.error \in ValidationMessages
    \/ rec.inCooldown
    \/ /\ ~IsNull(rec.rowAtStart)
       /\ \/ ~ScriptValid(Val(rec.rowAtStart))
          \/ ~ParamsValid(Val(rec.rowAtStart))

\* the columns of a row that a rejected run must leave alone
Kept(row) ==
    <<row.status, row.elevenlabs_voice_id, row.generated_audio_url,
      row.last_generation_at>>

\* C14: a run rejected by validation (missing or empty projectId, project
\* not found, no samples, invalid script or voice parameters) or by the rate
\* limit has answered with an error, left the project row as it was (status,
\* voice id, generated_audio_url, last_generation_at) and made no provider
\* call.
C14_RejectedRunChangesNothing ==
    \A r \in Runs :
        (Returned(run[r]) /\ Rejected(run[r])) =>
            /\ ~run[r].response.ok
            /\ NoProviderCall(run[r])
            /\ ~IsNull(run[r].rowAtStart) =>
                    Kept(RowOf(run[r])) = Kept(Val(run[r].rowAtStart))

---------------------------------------------------------------------------
(* Status of the project over a run                                        *)

Last(q) == q[Len(q)]

\* C15: a run that loaded an existing project and failed at a later step
\* (samples, download, createVoice, script, synthesize, empty audio, upload)
\* has set the project's status to failed when it returns its error
\* response.
C15_FailedRunSetsFailed ==
    \A r \in Runs :
        (Returned(run[r]) /\ Loaded(run[r]) /\ ~run[r].response.ok) =>
            /\ RowOf(run[r]).status = "failed"
            /\ run[r].writes # <<>>
            /\ Last(run[r].writes).to = "failed"

\* the status values of the writes of a run other than failed
RECURSIVE Progress(_)
Progress(q) ==
    IF q = <<>> THEN <<>>
    ELSE IF q[1].to = "failed" THEN Progress(Tail(q))
    ELSE <<q[1].to>> \o Progress(Tail(q))

IsPrefix(p, q) == Len(p) <= Len(q) /\ SubSeq(q, 1, Len(p)) = p

\* C18: the status values a run writes follow the order analyzing,
\* generating, completed; failed is written only over analyzing, training or
\* generating; and every status written is one of draft, recording,
\* analyzing, training, generating, completed, failed.
C18_StatusOrder ==
    \A r \in Runs :
        /\ IsPrefix(Progress(run[r].writes),
                    <<"analyzing", "generating", "completed">>)
        /\ \A k \in 1..Len(run[r].writes) :
              /\ run[r].writes[k].to \in
                    {"draft", "recording", "analyzing", "training",
                     "generating", "completed", "failed"}
              /\ run[r].writes[k].to = "failed" =>
                    run[r].writes[k].from \in
                        {"analyzing", "training", "generating"}

\* C19: when the try block's delete call is about to be issued the row is
\* completed with its generated_audio_url and without a voice id, and
\* whatever the delete call's result the run returns the success response
\* with that url and the row stays as it is.
C19_ReleaseAfterFinalize ==
    \A r \in Runs :
        /\ run[r].pc = "release" =>
              /\ run[r].deleteCalls = <<>>
              /\ RowOf(run[r]).status = "completed"
              /\ IsNull(RowOf(run[r]).elevenlabs_voice_id)
              /\ RowOf(run[r]).generated_audio_url = run[r].publicUrl
        /\ ( /\ Returned(run[r])
             /\ run[r].writes # <<>>
             /\ \E k \in 1..Len(run[r].writes) :
                    run[r].writes[k].to = "completed" ) =>
              /\ Len(run[r].deleteCalls) = 1
              /\ run[r].response.ok
              /\ run[r].response.audioUrl = run[r].publicUrl
              /\ RowOf(run[r]).status = "completed"
              /\ IsNull(RowOf(run[r]).elevenlabs_voice_id)
              /\ RowOf(run[r]).generated_audio_url = run[r].publicUrl

---------------------------------------------------------------------------
(* Failures inside a job of the Sweeper                                    *)

SweepErrors == {"ElevenLabs API key not configured", "query failed"}

\* C16: a job that has issued a DELETE never answers with an error: after a
\* failed or throwing DELETE the remaining rows and orphans are still
\* processed and the job answers success with its cleaned and failed counts,
\* every selected row being counted as one or the other; it answers with an
\* error only when the API key is missing or the query of pass (a) fails,
\* before any item is touched.
C16_SweepToleratesItemFailures ==
    /\ sw.deleteCalls # {} => (sw.pc = "returned" => sw.response.ok)
    /\ (sw.pc = "returned" /\ ~sw.response.ok) =>
          /\ sw.response.status = 500
          /\ sw.response.error \in SweepErrors
          /\ sw.deleteCalls = {}
          /\ sw.selectedProjects = {}
    /\ (sw.pc = "returned" /\ sw.response.ok) =>
          /\ sw.queue = {}
          /\ sw.targets = {}
          /\ sw.response.failed + Cardinality(sw.cleanedProjects)
                = Cardinality(sw.selectedProjects)
          /\ sw.response.cleaned >= Cardinality(sw.cleanedProjects)
          /\ sw.response.cleaned <= Cardinality(sw.cleanedProjects)
                                        + Cardinality(sw.cleanedVoices)

\* a job answers success after the DELETE of one row failed, the other row
\* and an orphan having been cleaned all the same
C16_Witness ==
    /\ sw.pc = "returned"
    /\ sw.response.ok
    /\ sw.response.failed = 1
    /\ sw.response.cleaned = 2
    /\ sw.selectedProjects = {"p1", "p2"}
    /\ Cardinality(sw.cleanedProjects) = 1
    /\ 3 \in sw.cleanedVoices
    /\ ~sw.providerOk

---------------------------------------------------------------------------
(* Specification of a caller and the Sweeper side by side: the job's       *)
(* steps interleave with the steps of the invocation                       *)

\* p1 is about to be generated; p2 is a failed project that still holds
\* the voice of an earlier run that was cut short
LeftoverVoice == [voice_id |-> 0, name |-> VoiceName("p2")]

InitRace ==
    /\ now = 0
    /\ voices = {LeftoverVoice}
    /\ nextVoice = 1
    /\ run = [r \in Runs |-> IdleRun]
    /\ stamped = [p \in ProjectIds |-> None]
    /\ rb = [rs |-> NoRetry, log |-> <<>>]
    /\ sw = IdleSweep
    /\ he = NoCall
    /\ samples = [p \in ProjectIds |-> 0]
    /\ ui = IdleUi
    /\ db = [p \in ProjectIds |->
                IF p = "p1" THEN NewRow(Some(ScriptHi), DefaultParams)
                ELSE [NewRow(Some(ScriptHi), DefaultParams) EXCEPT
                        !.status = "failed",
                        !.elevenlabs_voice_id = Some(LeftoverVoice.voice_id)]]

\* the job with its API key and a database that answers
SweepStep == SweepStepWith({TRUE})

\* the caller asks for one generation of p1
StartOnce == IsNull(stamped["p1"]) /\ StartTimed

\* before that the caller may upload a clip, and asks through the generate
\* dialog as well
ClientOnce ==
    /\ IsNull(stamped["p1"])
    /\ AllIdle
    /\ \/ DialogOf({"p1"}, {TextByeWide}, {Sliders(0, 75, 30, FALSE)}, {TRUE}, {1})
       \/ StudioOf({"p1"}, {TRUE}, 1)

NextRace == StartOnce \/ StepOk \/ SweepStep \/ ClientOnce

SpecRace == InitRace /\ [][NextRace]_vars

\* the run holds a voice it created and has not used yet
AwaitsSynthesis(rec) ==
    rec.pc \in {"storeVoiceId", "synthesize"} /\ ~IsNull(rec.created)

\* C17: while a run is between the return of createVoice and the end of its
\* synthesize step, the voice it created is at the provider: the Sweeper has
\* not deleted it.
C17_SweeperSparesRunningVoice ==
    \A r \in Runs :
        AwaitsSynthesis(run[r]) => Val(run[r].created) \in VoiceIds

---------------------------------------------------------------------------
(* Specification of one caller with a database that may answer an update   *)
(* with an error, which the handler does not look at                       *)

StepDb == StepWith(BOOLEAN)

NextDb == Start \/ StepDb \/ ClientLite(BOOLEAN)

SpecDb == InitRate /\ [][NextDb]_vars

\* C20: the caller gets the success response only if the upload succeeded
\* and the project row is completed with generated_audio_url equal to the
\* audioUrl of the response.
C20_SuccessMeansPersisted ==
    \A r \in Runs :
        (Returned(run[r]) /\ run[r].response.ok) =>
            /\ ~IsNull(run[r].publicUrl)
            /\ run[r].response.audioUrl = run[r].publicUrl
            /\ RowOf(run[r]).status = "completed"
            /\ RowOf(run[r]).generated_audio_url = run[r].response.audioUrl

---------------------------------------------------------------------------
(* Specification of a caller who generates again a failed project, whose   *)
(* leftover voice the Sweeper is cleaning up at the same time              *)

\* the voice an earlier run of p1 left behind
RetakeVoice == [voice_id |-> 0, name |-> VoiceName("p1")]

\* p1 is failed and still holds the voice of its earlier run
InitRetake ==
    /\ now = 0
    /\ voices = {RetakeVoice}
    /\ nextVoice = 1
    /\ run = [r \in Runs |-> IdleRun]
    /\ stamped = [p \in ProjectIds |-> None]
    /\ rb = [rs |-> NoRetry, log |-> <<>>]
    /\ sw = IdleSweep
    /\ he = NoCall
    /\ samples = [p \in ProjectIds |-> 1]
    /\ ui = IdleUi
    /\ db = [p \in ProjectIds |->
                IF p = "p1"
                THEN [NewRow(Some(ScriptHi), DefaultParams) EXCEPT
                        !.status = "failed",
                        !.elevenlabs_voice_id = Some(RetakeVoice.voice_id)]
                ELSE NewRow(Some(ScriptHi), DefaultParams)]

SpecRetake == InitRetake /\ [][NextRace]_vars

\* C21: when pass (a) of the Sweeper sets a row's voice id to null, the id
\* the row held is the id of the voice whose DELETE the job has just made:
\* an id that a run stored on the row after the job's query is not cleared.
C21_SweepClearsOnlyDeletedId ==
    [][\A p \in ProjectIds :
        ( /\ sw.pc = "clearA"
          /\ sw'.pc # "clearA"
          /\ ~IsNull(db[p].elevenlabs_voice_id)
          /\ IsNull(db'[p].elevenlabs_voice_id) )
        => /\ Val(sw.current).id = p
           /\ Val(sw.current).elevenlabs_voice_id
                    = Val(db[p].elevenlabs_voice_id)
      ]_vars

---------------------------------------------------------------------------
(* Specification of overlapping invocations on one project: NumRuns        *)
(* requests, each served by a worker of its own, whose steps interleave    *)

\* the provider answers OK or the fetch rejects
OverlapKinds == {"ok", "throw"}

\* One caller asks through the generate dialog, with the script and the
\* settings the row holds already. The worker that serves the dialog is
\* numbered 1.
GenerateAny ==
    /\ run[1].pc = "idle"
    /\ DialogOf({"p1"}, {ScriptHi}, {Sliders(50, 75, 0, TRUE)}, {TRUE}, {1})

\* A dialog awaits its response before it takes another submission, so the
\* requests that overlap with it come from the other sessions of the
\* project's owner, whose dialogs wrote the same script and settings to the
\* row: the POST of such a session arrives while the invocation of the
\* dialog is in progress and is taken by one of the other workers.
StartAny ==
    /\ run[1].pc \notin {"idle", "returned"}
    /\ \E r \in Runs \ {1} : run[r].pc = "idle" /\ Invoke(r, Some("p1"))
    /\ UNCHANGED ui

\* the steps of the invocations up to their responses: every update takes
\* effect or is answered with an error, and every download may fail
StepOverlap ==
    \E r \in Runs : RunStepOf(r, BOOLEAN, MaxSamples, OverlapKinds, MaxVoices)

NextOverlap == GenerateAny \/ StartAny \/ StepOverlap

\* p1 with one sample, as the generate dialog wrote it
InitOverlap ==
    /\ InitBase
    /\ samples = [p \in ProjectIds |-> 1]
    /\ db = [p \in ProjectIds |-> NewRow(Some(Trim(ScriptHi)), DefaultParams)]

SpecOverlap == InitOverlap /\ [][NextOverlap]_vars

\* the overlapping invocations have all returned
AllReturned == \A r \in Runs : Returned(run[r])

\* C22: once the overlapping invocations on the project have all returned,
\* however their database writes interleaved, the voice id stored on the
\* project row is null.
C22_AllReturnedNoVoiceId ==
    AllReturned => \A p \in ProjectIds : IsNull(db[p].elevenlabs_voice_id)

---------------------------------------------------------------------------
(* The generation stamp                                                    *)

\* the run has issued a remote call: a sample download or createVoice
CalledOut(rec) == rec.i > 0 \/ rec.calledCreate

\* C23: a run that has issued its first remote call has set
\* last_generation_at on the project row (with the update that makes the
\* row analyzing), so a crash after that call leaves the stamp set.
C23_StampedBeforeRemoteCalls ==
    \A r \in Runs :
        CalledOut(run[r]) => ~IsNull(RowOf(run[r]).last_generation_at)

---------------------------------------------------------------------------
(* Pass (a) of the Sweeper                                                 *)

\* pass (a) of the job is over, its query having been answered
PassADone ==
    \/ sw.pc \in {"list", "known", "passB"}
    \/ sw.pc = "returned" /\ sw.response.ok

\* C24: pass (a) handles exactly the rows that hold a voice id and are
\* failed, completed, or not updated for more than an hour; for each it
\* makes one DELETE call, the row's voice id is null afterwards when the
\* answer was OK or 404, and is the id it was when the call was answered
\* otherwise or threw.
C24_PassAByTheBook ==
    /\ [][ (sw.pc = "idle" /\ sw'.pc \in {"passA", "list"}) =>
            LET due == { p \in ProjectIds :
                            /\ db[p].elevenlabs_voice_id # None
                            /\ \/ db[p].status \in {"failed", "completed"}
                               \/ now - db[p].updated_at > STUCK_MINUTES }
            IN  /\ sw'.selectedProjects = due
                /\ sw'.queue =
                     { [id |-> p,
                        elevenlabs_voice_id |-> db[p].elevenlabs_voice_id[1]] :
                            p \in due } ]_vars
    /\ []( PassADone =>
            /\ {a.id : a \in sw.answered} = sw.selectedProjects
            /\ Cardinality(sw.answered) = Cardinality(sw.selectedProjects)
            /\ \A a \in sw.answered :
                  db[a.id].elevenlabs_voice_id =
                     IF a.outcome \in {"ok", "not_found"}
                     THEN None ELSE Some(a.voice) )

---------------------------------------------------------------------------
(* Pass (b) of the Sweeper                                                 *)

\* the voice ids the rows of the table hold
Referenced == { db[p].elevenlabs_voice_id[1] :
                    p \in {q \in ProjectIds : db[q].elevenlabs_voice_id # None} }

\* C25: every voice pass (b) calls DELETE on has a name that begins with
\* Voice_ and an id that is not among the voice ids the job read from the
\* table (which are the ids the rows hold, when the read was answered);
\* pass (b) removes no other voice from the provider.
C25_PassBDeletesOrphansOnly ==
    /\ []( \A v \in sw.orphans \cup sw.targets :
              /\ Len(v.name) >= 6 /\ SubSeq(v.name, 1, 6) = "Voice_"
              /\ v.voice_id \notin sw.known )
    /\ []( (sw.pc = "passB" /\ sw.dbOk) => sw.known = Referenced )
    /\ [][ sw.pc = "passB" => voices \ voices' \subseteq sw.targets ]_vars

\* C25 witness: pass (b) called DELETE on the voice an earlier run left
\* behind, and left alone a voice of another name and the voice with the
\* prefix that a row in progress holds
C25_Witness ==
    /\ sw.pc = "returned" /\ sw.dbOk
    /\ \E v \in sw.orphans : v.voice_id = 3
    /\ \E v \in voices : v.voice_id = 4 /\ v.name = "Narrator"
    /\ \E v \in voices : v.voice_id = 2 /\ v.name = VoiceName("p2")
    /\ db["p2"].status = "generating"
    /\ 2 \in sw.known
    /\ Cardinality(sw.orphans) = 1

---------------------------------------------------------------------------
(* The DELETE calls of a run                                               *)

\* C26: a run makes at most one DELETE call, and makes it for the voice id
\* its own createVoice call returned, whatever voice id the project row
\* held or holds; a run whose createVoice returned no id makes none.
C26_DeletesOwnVoiceOnly ==
    \A r \in Runs :
        /\ Len(run[r].deleteCalls) <= 1
        /\ \A k \in 1..Len(run[r].deleteCalls) :
              /\ ~IsNull(run[r].created)
              /\ run[r].deleteCalls[k].id = Val(run[r].created)

\* C26 witness: the row held the voice of an earlier run when the run read
\* it; the run created a voice of its own and called DELETE on that one
C26_Witness ==
    \E r \in Runs :
        /\ Returned(run[r]) /\ Loaded(run[r])
        /\ Val(run[r].project).elevenlabs_voice_id = Some(RetakeVoice.voice_id)
        /\ ~IsNull(run[r].created)
        /\ Len(run[r].deleteCalls) = 1
        /\ run[r].deleteCalls[1].id # RetakeVoice.voice_id

---------------------------------------------------------------------------
(* Specification of one caller whose invocations go on: every call the     *)
(* handler awaits is answered, with a result or an error (the fetches are  *)
(* aborted after 30 s and 120 s), so a step of a run in progress is taken  *)

\* p1 without a script, or with one
InitLive ==
    /\ InitCommon
    /\ \E script \in {None, Some(ScriptHi)} :
          db = [p \in ProjectIds |->
                    IF p = "p1" THEN NewRow(script, DefaultParams)
                    ELSE NewRow(Some(ScriptHi), DefaultParams)]

NextLive == Start \/ StepOk \/ Client

SpecLive == InitLive /\ [][NextLive]_vars /\ WF_vars(StepOk)

\* C27: every invocation returns a response, each call it awaits being
\* answered; createVoice and synthesize are called at most 3 times each,
\* sample number k is fetched at most once, and no more fetches are made
\* than there are samples.
C27_EveryRunReturns ==
    /\ []( \A r \in Runs :
            /\ run[r].retry.calls <= 3
            /\ run[r].i <= run[r].nSamples
            /\ Len(run[r].files) + Len(run[r].failed) = run[r].i
            /\ \A k \in 0..(run[r].i - 1) :
                  Cardinality({j \in 1..Len(run[r].files) : run[r].files[j] = k})
                  + Cardinality({j \in 1..Len(run[r].failed) : run[r].failed[j] = k})
                  = 1 )
    /\ \A r \in Runs : (run[r].pc # "idle") ~> Returned(run[r])

\* C27 witness: a run returned after three failed createVoice calls
C27_Witness ==
    \E r \in Runs :
        /\ Returned(run[r])
        /\ run[r].calledCreate /\ ~run[r].calledSynth
        /\ run[r].retry.state = "threw"
        /\ run[r].retry.calls = 3
        /\ run[r].nSamples = MaxSamples

---------------------------------------------------------------------------
(* Specification of the Sweeper on its hourly schedule, without end: the   *)
(* job is started again and again with its API key and a database that     *)
(* answers, time passes, and a provider call that is made again and again  *)
(* is answered OK at some point                                            *)

SweepStepLive == SweepStepOf({TRUE})

\* meanwhile the recording studio writes the count of uploaded clips of p1
StudioLive == \E dbOk \in {TRUE} : UpdateClipsUploaded("p1", dbOk)

NextSweepLive == SweepStepLive \/ SweepWait \/ StudioLive

\* the provider answers the listing
ListOk == SweepList("ok")

\* the provider answers a DELETE of pass (a): OK, or 404
DeleteAOk ==
    \E project \in sw.queue, o \in {"ok", "not_found"} :
        SweepDeleteA(project, o)

\* the provider answers a DELETE of pass (b): OK
DeleteBOk == \E voice \in sw.targets : SweepDeleteB(voice, "ok")

SweepFairness ==
    /\ WF_vars(SweepStepLive)
    /\ SF_vars(SweepWait)
    /\ SF_vars(ListOk)
    /\ SF_vars(DeleteAOk)
    /\ SF_vars(DeleteBOk)

\* at most one of the four voices is gone from the account already
InitSweepLive == InitSweep /\ Cardinality(voices) >= 3

SpecSweepLive == InitSweepLive /\ [][NextSweepLive]_vars /\ SweepFairness

\* the voice is at the provider and the run that made it has finished: no
\* row holds its id, or the row that does is failed or completed (a row
\* that holds a voice id in another status is one of a run in progress, or
\* of a run that was cut short, which the job takes up once the row has not
\* been written for an hour)
LeftBehind(v) ==
    /\ v \in voices
    /\ \A p \in ProjectIds :
          db[p].elevenlabs_voice_id = Some(v.voice_id)
              => db[p].status \in {"failed", "completed"}

\* the voices named Voice_... that are left behind
Leftovers ==
    {v \in SweepVoices : StartsWith(v.name, "Voice_") /\ LeftBehind(v)}

\* C28: a voice named Voice_... that a finished run left at the provider is
\* deleted at some point, the job being run again and again and the
\* provider's listing and DELETE calls being answered OK at some point.
C28_LeftoversEventuallyDeleted ==
    (Leftovers # {}) ~> (Leftovers = {})

\* C28 witness: the voice no row holds was still there after a job whose
\* provider calls failed, and a later job deleted it
C28_Witness ==
    /\ sw.pc = "returned"
    /\ ~IsNull(sw.prev) /\ ~Val(sw.prev).providerOk
    /\ 3 \notin Val(sw.prev).cleanedVoices
    /\ 3 \in sw.cleanedVoices
    /\ \A v \in voices : v.voice_id # 3

---------------------------------------------------------------------------
(* Specification of one generation of a project with about 25 samples      *)

\* samples beyond the 25th, and downloads of a run that fail
MaxExtra == 1
MaxFailures == 1

\* p1 has 24 samples
InitCap ==
    /\ InitBase
    /\ samples = [p \in ProjectIds |-> MAX_FILES - 1]
    /\ db = [p \in ProjectIds |-> NewRow(Some(ScriptHi), DefaultParams)]

StepCap == StepOf({TRUE}, MaxFailures, AnswerKinds, MaxVoices)

\* the user uploads up to 25 + MaxExtra clips before asking
StudioCap ==
    /\ IsNull(stamped["p1"])
    /\ AllIdle
    /\ StudioOf({"p1"}, {TRUE}, MAX_FILES + MaxExtra)

NextCap == StartOnce \/ StepCap \/ StudioCap

SpecCap == InitCap /\ [][NextCap]_vars

\* C29: the files of the createVoice payload are at most 25, are among the
\* first 25 rows of the samples query (which is in ascending clip_number
\* order) and are in that order; no row beyond the 25th is fetched, also
\* when a fetch among the first 25 failed.
C29_AtMost25FromFirst25 ==
    \A r \in Runs :
        /\ Len(run[r].files) <= 25
        /\ run[r].i <= 25
        /\ \A k \in SeqToSet(run[r].files) \cup SeqToSet(run[r].failed) :
              k >= 0 /\ k < 25 /\ k < run[r].nSamples
        /\ \A a, b \in 1..Len(run[r].files) :
              a < b => run[r].files[a] < run[r].files[b]

\* C29 witness: the project has more than 25 samples, one of the first 25
\* could not be fetched, and createVoice was called with the other 24
C29_Witness ==
    \E r \in Runs :
        /\ run[r].nSamples > 25
        /\ run[r].calledCreate
        /\ Len(run[r].failed) = 1
        /\ Len(run[r].files) = 24
        /\ run[r].i = 25

---------------------------------------------------------------------------
(* The waits of retryWithBackoff                                           *)

\* the invocations of fn that have failed so far
Failures == {k \in 1..Len(rb.log) : ~rb.log[k].ok}

\* 1, 2, 4, 8, ...
Doubling == <<1, 2, 4, 8, 16, 32>>

\* C30: the wait that follows the failure of attempt number k (from 0) is
\* initialDelay * 2^k when attempts remain, and there is no wait after the
\* failure of the last attempt; with 3 attempts, as the provider calls of a
\* run have, the waits are initialDelay and then 2 * initialDelay.
C30_BackoffDoubles ==
    /\ Len(rb.rs.delays) =
          IF Cardinality(Failures) < rb.rs.maxRetries
          THEN Cardinality(Failures)
          ELSE IF rb.rs.maxRetries >= 1 THEN rb.rs.maxRetries - 1 ELSE 0
    /\ \A k \in 0..(Len(rb.rs.delays) - 1) :
          rb.rs.delays[k + 1] = rb.rs.initialDelay * Doubling[k + 1]
    /\ ( /\ rb.rs.state = "threw"
         /\ rb.rs.maxRetries = RETRIES
         /\ rb.rs.initialDelay = INITIAL_DELAY )
       => rb.rs.delays = <<2000, 4000>>

\* C30 witness: fn failed three times and succeeded at its fourth
\* invocation; the waits were initialDelay, twice and four times that
C30_Witness ==
    /\ rb.rs.state = "returned"
    /\ rb.rs.maxRetries = 4
    /\ Cardinality(Failures) = 3
    /\ rb.rs.delays = <<rb.rs.initialDelay, 2 * rb.rs.initialDelay,
                        4 * rb.rs.initialDelay>>

=============================================================================
